---- MODULE Spec2Model ----
(***************************************************************************)
(* Render graph of render_sandbox (src/src/render_graph.rs): the pass      *)
(* table, the per-pass resource declarations, the compiled cache, and the  *)
(* operations add_pass, remove_pass, clear, compile, initialize_passes and *)
(* execute; and the resource manager under it                              *)
(* (src/src/resource_manager.rs): the handle counter of the process, the   *)
(* table of resources, and create_*, get_*, remove_resource and clear; and  *)
(* the renderer over both (src/src/renderer.rs): initialize, render and    *)
(* resize.                                                                 *)
(*                                                                         *)
(* The graph is used from one thread.  execute() borrows the graph for the *)
(* whole call, so no other operation runs while it is in progress; it is   *)
(* modelled one pass invocation at a time so that the order of invocations *)
(* and of the queue submission can be observed.                            *)
(***************************************************************************)
EXTENDS Integers, Sequences, FiniteSets, TLC

\* ------------------------------------------------------------------ bounds

\* Longest Vec<ResourceDeclaration> of a pass in the tables compile() is
\* checked on.
MaxDecls == 2

\* Number of distinct resource ids in the tables compile() is checked on.
NumResources == 2

\* Number of create_* calls made on the resource manager: create_* is not
\* called once HANDLE_COUNTER has passed this value.  (fetch_add wraps at
\* 2^64; no run gets there.)
MaxCreates == 3

\* Number of initialize_passes calls counted per pass.
MaxInitCalls == 2

\* Number of resources a caller of the renderer creates for the forward
\* pass's two render targets.
MaxTargets == 2

\* Number of frames rendered: Renderer::render is not called once
\* stats.frame_count has this value.  (frame_count is a u64; no run wraps it.)
MaxFrames == 3

\* The SceneNode::new calls of a behaviour.
MaxNodes == 4

\* ------------------------------------------------------------ value spaces

\* PassId and ResourceId wrap a string; equality is by that string.
PassIds == {"A", "B", "C"}
ResourceList == <<"X", "Y", "Z", "W">>
ResourceIds == { ResourceList[i] : i \in 1..NumResources }

\* enum ResourceUsage
ResourceUsage == {"Read", "Write", "ReadWrite"}

\* struct ResourceDeclaration { id, usage }
ResourceDeclaration == [id : ResourceIds, usage : ResourceUsage]

\* PlaceholderPass::with_resource: one more declaration on the list.
with_resource(resources, resource_id, usage) ==
    Append(resources, [id |-> resource_id, usage |-> usage])

\* The position of a resource id in ResourceList; used only to enumerate
\* declaration lists up to the order of their entries.
ResourceRank(r) == CHOOSE i \in DOMAIN ResourceList : ResourceList[i] = r

\* Every declaration list of at most MaxDecls entries, one per resource id,
\* listed by resource id.  compile() only asks, per resource, whether a pass
\* is among its writers and among its readers, so permuting a list or
\* splitting ReadWrite into a Read and a Write entry changes nothing it
\* computes.
DeclLists ==
    { s \in UNION { [1..n -> ResourceDeclaration] : n \in 0..MaxDecls } :
        \A i, j \in DOMAIN s :
            i < j => ResourceRank(s[i].id) < ResourceRank(s[j].id) }

\* The declaration lists of the passes callers hand to add_pass: the passes
\* the renderer and the tests build, and the three passes of a dependency
\* cycle over two resources.
CallerDecls ==
    { <<>>,                                                   \* PlaceholderPass::new
      with_resource(<<>>, "X", "Write"),                      \* ClearPass, Pass1
      with_resource(<<>>, "X", "Read"),                       \* Pass2
      with_resource(with_resource(<<>>, "X", "ReadWrite"), "Y", "ReadWrite"),  \* ForwardPass
      with_resource(with_resource(<<>>, "X", "Read"), "Y", "Write"),
      with_resource(with_resource(<<>>, "Y", "Read"), "X", "Write") }

\* A Box<dyn RenderPass> as the graph sees it: what id() and resources()
\* return.  (PlaceholderPass: fields id, resources.)
RenderPass(id, resources) == [id |-> id, resources |-> resources]

\* The passes handed to add_pass.
PassInputs == { RenderPass(id, resources) : id \in PassIds, resources \in CallerDecls }

\* No pass: the `pass` field of a result that names none.
NoPass == "-"

\* The value of the last call that returned: the operation, the Result /
\* bool it returned, and the pass an error names.
Result(op, kind, pass) == [op |-> op, kind |-> kind, pass |-> pass]

\* ------------------------------------------------------------------- state

VARIABLES
    passes,                 \* RenderGraph.passes: PassId -> the pass object
    resource_declarations,  \* RenderGraph.resource_declarations: PassId -> Vec
    compiled,               \* RenderGraph.compiled: <<>> is None, <<c>> is Some(c)
    pc,                     \* "idle", or "executing" while execute() runs
    cursor,                 \* execute(): index in compiled.passes of the next pass
    invoked,                \* pass.execute() calls of the current/last call, in order: [id, outcome]
    submitted,              \* queue.submit calls made by the current/last call
    result,                 \* what the last call that returned gave back
    entry,                  \* is_compiled() and pass_count() as the current/last call found them
    retry,                  \* history of a failed compile: "none", "failed", "removed", "recovered"
    HANDLE_COUNTER,         \* static HANDLE_COUNTER: the next HandleId of the process
    resources,              \* ResourceManager.resources: HandleId -> [kind, object]
    named_resources,        \* the manager's named resources: name -> HandleId
    device_objects,         \* how many objects the wgpu device has created; object n is the n-th
    issued,                 \* the handles create_* has returned, in order: [id, kind, object]
    removed_at,             \* per id remove_resource took out: HANDLE_COUNTER at that time
    published,              \* per name, the handles of its last two publish_named calls
    rm_result,              \* the last resource-manager call that returned, and its value
    rm_entry,               \* the table as that call found it
    renderer_initialized,   \* Renderer.initialized
    stats,                  \* Renderer.stats: [frame_count, render_passes]
    rpc,                    \* where the Renderer call in progress is; "idle" between calls
    rd_result,              \* the last Renderer call that returned, and its value
    rd_entry,               \* the renderer as the last Renderer call found it
    other_resources,        \* the table of a second ResourceManager of the process
    in_flight,              \* per thread, the create_* call it is in: <<>> or <<[id, kind, object]>>
    NODE_COUNTER,           \* static mut NODE_COUNTER: the next NodeId of the process
    nodes,                  \* the scene nodes constructed, in order: [id, by]
    node_call               \* per thread, the next_node_id() call it is in: <<>> or <<the id it read>>

\* The render graph and what is observed about it.
graph_vars == <<passes, resource_declarations, compiled, pc, cursor, invoked,
                submitted, result, entry, retry>>

\* The resource manager and what is observed about it.
manager_vars == <<HANDLE_COUNTER, resources, named_resources, device_objects,
                  issued, removed_at, published, rm_result, rm_entry>>

\* The renderer and what is observed about it.
renderer_vars == <<renderer_initialized, stats, rpc, rd_result, rd_entry>>

\* The rest of the process: a second manager, and the threads in create_*.
process_vars == <<other_resources, in_flight, NODE_COUNTER, nodes, node_call>>

\* The scene nodes of the process and the counter their ids come from.
scene_vars == <<NODE_COUNTER, nodes, node_call>>

\* All but the render graph, and all but the resource manager.
beside_graph == <<manager_vars, renderer_vars, process_vars>>

beside_manager == <<graph_vars, renderer_vars, process_vars>>

vars == <<passes, resource_declarations, compiled, pc, cursor, invoked,
          submitted, result, entry, retry,
          HANDLE_COUNTER, resources, named_resources, device_objects,
          issued, removed_at, published, rm_result, rm_entry,
          renderer_initialized, stats, rpc, rd_result, rd_entry,
          other_resources, in_flight, NODE_COUNTER, nodes, node_call>>

\* The empty HashMap.
EmptyMap == [k \in {} |-> <<>>]

\* HashMap::insert(k, v)
MapInsert(m, k, v) == [x \in DOMAIN m \cup {k} |-> IF x = k THEN v ELSE m[x]]

\* HashMap::remove(k)
MapRemove(m, k) == [x \in DOMAIN m \ {k} |-> m[x]]

\* RenderGraph::is_compiled
is_compiled == compiled # <<>>

\* RenderGraph::execution_order (meaningful when is_compiled)
execution_order == compiled[1].passes

\* RenderGraph::pass_count
pass_count == Cardinality(DOMAIN passes)

\* What a call finds on entry.
CallEntry == entry' = [compiled |-> is_compiled, count |-> pass_count]

\* A call that is not execute() invokes no pass and submits nothing.
NoPassWork ==
    /\ CallEntry
    /\ invoked' = <<>>
    /\ submitted' = 0
    /\ UNCHANGED <<pc, cursor>>

\* enum Resource: the kind of object a table entry holds.
ResourceKinds ==
    {"Buffer", "Texture", "BindGroup", "BindGroupLayout", "RenderPipeline",
     "ComputePipeline", "Shader", "Sampler"}

\* The kinds the calls of the model create and ask for: create_buffer /
\* get_buffer, create_texture / get_texture, create_shader / get_shader.  The
\* other create_* and get_* functions have the same body with another variant
\* of Resource.
HandleKinds == {"Buffer", "Texture", "Shader"}

\* The HandleId values callers hold: those create_* can have issued.  A
\* Handle<T> is Copy and is also built from a bare id (Handle::from_id in
\* pipeline.rs), so a caller can hold any id under any T.
HandleIds == 1..MaxCreates

\* The names passes look resources up by.
ResourceNames == {"BackBuffer", "DepthBuffer"}

\* No id, no object, no name, no kind: fields of a result that has none.
NoId == 0
NoObject == 0
NoName == "-"
NoKind == "-"

\* A table entry: the Resource variant and the wgpu object in it.
Resource(kind, object) == [kind |-> kind, object |-> object]

\* The last resource-manager call that returned: the operation, the id and
\* the name it was given, the T of its Handle<T>, what it returned (kind) and
\* the object a get_* resolved to.
RmResult(op, id, type, kind, object, name) ==
    [op |-> op, id |-> id, type |-> type, kind |-> kind, object |-> object,
     name |-> name]

\* ResourceManager::new, in a process that has created no handle yet.
ManagerNew ==
    /\ HANDLE_COUNTER = 1
    /\ resources = EmptyMap
    /\ named_resources = EmptyMap
    /\ device_objects = 0
    /\ issued = <<>>
    /\ removed_at = EmptyMap
    /\ published = EmptyMap
    /\ rm_result = RmResult("new", NoId, NoKind, "Ok", NoObject, NoName)
    /\ rm_entry = EmptyMap

\* The threads of the process that call create_*: the one that owns the
\* manager `resources`, and the one that owns `other_resources`.
Threads == {"this", "other"}

\* The value of the last Renderer call that returned: the operation, Ok or
\* the error it returned.
RdResult(op, kind) == [op |-> op, kind |-> kind]

\* scene.rs as the process starts: NODE_COUNTER is 1, no SceneNode has been
\* constructed and no thread is in next_node_id().
SceneNew ==
    /\ NODE_COUNTER = 1
    /\ nodes = <<>>
    /\ node_call = [t \in Threads |-> <<>>]

\* Renderer::new (the graph and the manager it holds are RenderGraph::new
\* and ManagerNew), in a process with a second manager that is new too and
\* no create_* call in progress.
RendererNew ==
    /\ renderer_initialized = FALSE
    /\ stats = [frame_count |-> 0, render_passes |-> 0]
    /\ rpc = "idle"
    /\ rd_result = RdResult("new", "Ok")
    /\ rd_entry = [initialized |-> FALSE, pass_count |-> 0, frame_count |-> 0]
    /\ other_resources = EmptyMap
    /\ in_flight = [t \in Threads |-> <<>>]
    /\ SceneNew

\* RenderGraph::new, and ResourceManager::new and Renderer::new beside it.
Init ==
    /\ ManagerNew
    /\ RendererNew
    /\ passes = EmptyMap
    /\ resource_declarations = EmptyMap
    /\ compiled = <<>>
    /\ pc = "idle"
    /\ cursor = 0
    /\ invoked = <<>>
    /\ submitted = 0
    /\ result = Result("new", "Ok", NoPass)
    /\ entry = [compiled |-> FALSE, count |-> 0]
    /\ retry = "none"

\* ------------------------------------------------- add / remove / clear

\* add_pass dropping the cache only when the id is new to the table.
add_pass_if_new(pass) ==
    /\ pc = "idle"
    /\ resource_declarations' = MapInsert(resource_declarations, pass.id, pass.resources)
    /\ passes' = MapInsert(passes, pass.id, pass)
    /\ compiled' = IF pass.id \in DOMAIN passes THEN compiled ELSE <<>>
    /\ result' = Result("add_pass", "Ok", NoPass)
    /\ retry' = "none"
    /\ NoPassWork

\* add_pass leaving the cache as it is.
add_pass_keeps_cache(pass) ==
    /\ pc = "idle"
    /\ resource_declarations' = MapInsert(resource_declarations, pass.id, pass.resources)
    /\ passes' = MapInsert(passes, pass.id, pass)
    /\ UNCHANGED compiled
    /\ result' = Result("add_pass", "Ok", NoPass)
    /\ retry' = "none"
    /\ NoPassWork

\* add_pass recording the declarations of the pass and not the pass.
add_pass_declarations_only(pass) ==
    /\ pc = "idle"
    /\ resource_declarations' = MapInsert(resource_declarations, pass.id, pass.resources)
    /\ UNCHANGED passes
    /\ compiled' = <<>>
    /\ result' = Result("add_pass", "Ok", NoPass)
    /\ retry' = "none"
    /\ NoPassWork

\* add_pass keeping the declarations already stored under the id.
add_pass_keeps_declarations(pass) ==
    /\ pc = "idle"
    /\ resource_declarations' =
           IF pass.id \in DOMAIN resource_declarations
           THEN resource_declarations
           ELSE MapInsert(resource_declarations, pass.id, pass.resources)
    /\ passes' = MapInsert(passes, pass.id, pass)
    /\ compiled' = <<>>
    /\ result' = Result("add_pass", "Ok", NoPass)
    /\ retry' = "none"
    /\ NoPassWork

\* RenderGraph::add_pass
add_pass(pass) ==
    /\ pc = "idle"
    /\ resource_declarations' = MapInsert(resource_declarations, pass.id, pass.resources)
    /\ passes' = MapInsert(passes, pass.id, pass)
    /\ compiled' = <<>>
    /\ result' = Result("add_pass", "Ok", NoPass)
    /\ retry' = "none"
    /\ NoPassWork

\* remove_pass leaving the cache as it is.
remove_pass_keeps_cache(id) ==
    /\ pc = "idle"
    /\ LET removed == id \in DOMAIN passes
       IN  /\ passes' = MapRemove(passes, id)
           /\ resource_declarations' = MapRemove(resource_declarations, id)
           /\ UNCHANGED compiled
           /\ result' = Result("remove_pass", IF removed THEN "true" ELSE "false", NoPass)
           /\ retry' = IF ~removed THEN retry
                       ELSE IF retry = "failed" THEN "removed" ELSE "none"
    /\ NoPassWork

\* remove_pass dropping the cache whether or not it found the id.
remove_pass_always_invalidates(id) ==
    /\ pc = "idle"
    /\ LET removed == id \in DOMAIN passes
       IN  /\ passes' = MapRemove(passes, id)
           /\ resource_declarations' = MapRemove(resource_declarations, id)
           /\ compiled' = <<>>
           /\ result' = Result("remove_pass", IF removed THEN "true" ELSE "false", NoPass)
           /\ retry' = IF ~removed THEN retry
                       ELSE IF retry = "failed" THEN "removed" ELSE "none"
    /\ NoPassWork

\* remove_pass taking the pass out of the pass table only.
remove_pass_keeps_declarations(id) ==
    /\ pc = "idle"
    /\ LET removed == id \in DOMAIN passes
       IN  /\ passes' = MapRemove(passes, id)
           /\ UNCHANGED resource_declarations
           /\ compiled' = IF removed THEN <<>> ELSE compiled
           /\ result' = Result("remove_pass", IF removed THEN "true" ELSE "false", NoPass)
           /\ retry' = IF ~removed THEN retry
                       ELSE IF retry = "failed" THEN "removed" ELSE "none"
    /\ NoPassWork

\* RenderGraph::remove_pass
remove_pass(id) ==
    /\ pc = "idle"
    /\ LET removed == id \in DOMAIN passes
       IN  /\ passes' = MapRemove(passes, id)
           /\ resource_declarations' = MapRemove(resource_declarations, id)
           /\ compiled' = IF removed THEN <<>> ELSE compiled
           /\ result' = Result("remove_pass", IF removed THEN "true" ELSE "false", NoPass)
           /\ retry' = IF ~removed THEN retry
                       ELSE IF retry = "failed" THEN "removed" ELSE "none"
    /\ NoPassWork

\* clear leaving the cache as it is.
clear_keeps_cache ==
    /\ pc = "idle"
    /\ passes' = EmptyMap
    /\ resource_declarations' = EmptyMap
    /\ UNCHANGED compiled
    /\ result' = Result("clear", "Ok", NoPass)
    /\ retry' = "none"
    /\ NoPassWork

\* RenderGraph::clear
clear ==
    /\ pc = "idle"
    /\ passes' = EmptyMap
    /\ resource_declarations' = EmptyMap
    /\ compiled' = <<>>
    /\ result' = Result("clear", "Ok", NoPass)
    /\ retry' = "none"
    /\ NoPassWork

\* ---------------------------------------------------------------- compile

\* The orders in which a HashMap may be iterated, by key set: every listing
\* of the keys without repeats (the hasher is seeded per map, so two maps
\* over the same keys need not agree).
IterationOrderTable ==
    [ S \in SUBSET PassIds |->
        { s \in [1..Cardinality(S) -> S] :
            \A i, j \in DOMAIN s : i # j => s[i] # s[j] } ]

IterationOrders(S) == IterationOrderTable[S]

\* resource_writers[r] taking every declaration on r for a write.
resource_writers_any_usage(decls, r) ==
    { p \in DOMAIN decls :
        \E i \in DOMAIN decls[p] : decls[p][i].id = r }

\* resource_writers[r] filled from the Write declarations only, a ReadWrite
\* declaration counting as a read.
resource_writers_write_only(decls, r) ==
    { p \in DOMAIN decls :
        \E i \in DOMAIN decls[p] :
            decls[p][i].id = r /\ decls[p][i].usage = "Write" }

\* compile(), first pass: resource_writers[r], the passes with a Write or
\* ReadWrite declaration on r (kept as a set: the Vec's order and repeats
\* are not read by anything).
resource_writers(decls, r) ==
    { p \in DOMAIN decls :
        \E i \in DOMAIN decls[p] :
            decls[p][i].id = r /\ decls[p][i].usage \in {"Write", "ReadWrite"} }

\* resource_readers[r] filled from every declaration on r, whatever its usage.
resource_readers_any_usage(decls, r) ==
    { p \in DOMAIN decls :
        \E i \in DOMAIN decls[p] : decls[p][i].id = r }

\* compile(), first pass: resource_readers[r], the passes with a Read or
\* ReadWrite declaration on r.
resource_readers(decls, r) ==
    { p \in DOMAIN decls :
        \E i \in DOMAIN decls[p] :
            decls[p][i].id = r /\ decls[p][i].usage \in {"Read", "ReadWrite"} }

\* dependencies with the edges turned round: each writer waits for the
\* readers of what it writes.
dependencies_reversed(decls) ==
    [ writer \in DOMAIN decls |->
        { reader \in DOMAIN decls :
            /\ reader # writer
            /\ \E r \in ResourceIds :
                /\ reader \in resource_readers(decls, r)
                /\ writer \in resource_writers(decls, r) } ]

\* compile(), second pass: dependencies[reader], the writers of a resource
\* the reader reads, the reader itself excepted.
dependencies(decls) ==
    [ reader \in DOMAIN decls |->
        { writer \in DOMAIN decls :
            /\ reader # writer
            /\ \E r \in ResourceIds :
                /\ reader \in resource_readers(decls, r)
                /\ writer \in resource_writers(decls, r) } ]

\* compile(): the resource_id -> writer passes map stored in the cache; an
\* entry exists for each resource with at least one writer.
resource_dependencies(decls) ==
    [ r \in { x \in ResourceIds : resource_writers(decls, x) # {} } |->
        resource_writers(decls, r) ]

\* topological_sort, inner for loop: decrement the in-degree of each neighbor
\* of the popped pass and enqueue those that reach zero.
RECURSIVE RelaxNeighbors(_, _, _)
RelaxNeighbors(neighbors, in_degree, queue) ==
    IF neighbors = <<>>
    THEN [in_degree |-> in_degree, queue |-> queue]
    ELSE LET neighbor == Head(neighbors)
             degree == in_degree[neighbor] - 1
         IN  RelaxNeighbors(Tail(neighbors),
                            [in_degree EXCEPT ![neighbor] = degree],
                            IF degree = 0 THEN Append(queue, neighbor) ELSE queue)

\* topological_sort, the while loop of Kahn's algorithm.
RECURSIVE KahnLoop(_, _, _, _)
KahnLoop(queue, sorted, in_degree, adj_list) ==
    IF queue = <<>>
    THEN sorted
    ELSE LET current == Head(queue)
             step == RelaxNeighbors(adj_list[current], in_degree, Tail(queue))
         IN  KahnLoop(step.queue, Append(sorted, current), step.in_degree, adj_list)

\* topological_sort panics (an unwrap on a missing key) when a dependency
\* edge names a pass that is not a key of the pass table.
SortPanics(keys, deps) ==
    \E dependent \in DOMAIN deps :
        deps[dependent] # {} /\ ~(({dependent} \cup deps[dependent]) \subseteq keys)

\* topological_sort, lines 259-277: in_degree[p] is the number of passes p
\* depends on.
in_degrees(keys, deps) ==
    [ p \in keys |-> IF p \in DOMAIN deps THEN Cardinality(deps[p]) ELSE 0 ]

\* topological_sort, lines 259-277: the adjacency lists the call may build.
\* The `dependencies` map is a HashMap; the order in which it is iterated
\* fixes the order of the dependents in every list.
adj_lists(keys, deps) ==
    { [ p \in keys |-> SelectSeq(depsIter, LAMBDA dependent : p \in deps[dependent]) ] :
        depsIter \in IterationOrders(DOMAIN deps) }

\* The initial queue built in one fixed order of the passes.
initial_queues_one_order(in_degree) ==
    { SelectSeq(CHOOSE degIter \in IterationOrders(DOMAIN in_degree) : TRUE,
                LAMBDA p : in_degree[p] = 0) }

\* topological_sort, lines 280-285: the initial queues the call may build,
\* the zero in-degree passes in the order `in_degree` (a HashMap) is iterated.
initial_queues(in_degree) ==
    { SelectSeq(degIter, LAMBDA p : in_degree[p] = 0) :
        degIter \in IterationOrders(DOMAIN in_degree) }

\* topological_sort without the comparison of the sorted length with the
\* pass count.
topological_sort_unchecked(keys, deps) ==
    LET in_degree == in_degrees(keys, deps)
    IN  { [kind |-> "Ok", sorted |-> KahnLoop(queue, <<>>, in_degree, adj_list)] :
            adj_list \in adj_lists(keys, deps), queue \in initial_queues(in_degree) }

\* topological_sort taking an empty order for a cycle.
topological_sort_rejects_empty(keys, deps) ==
    LET in_degree == in_degrees(keys, deps)
    IN  { LET sorted == KahnLoop(queue, <<>>, in_degree, adj_list)
          IN  IF Len(sorted) # Cardinality(keys) \/ sorted = <<>>
              THEN [kind |-> "CyclicDependency", sorted |-> <<>>]
              ELSE [kind |-> "Ok", sorted |-> sorted] :
            adj_list \in adj_lists(keys, deps), queue \in initial_queues(in_degree) }

\* RenderGraph::topological_sort over the pass-table keys `keys`: the results
\* the call may return, one per choice of adjacency lists and initial queue.
topological_sort(keys, deps) ==
    LET in_degree == in_degrees(keys, deps)
    IN  { LET sorted == KahnLoop(queue, <<>>, in_degree, adj_list)
          IN  IF Len(sorted) # Cardinality(keys)
              THEN [kind |-> "CyclicDependency", sorted |-> <<>>]
              ELSE [kind |-> "Ok", sorted |-> sorted] :
            adj_list \in adj_lists(keys, deps), queue \in initial_queues(in_degree) }

\* compile refusing a graph that is compiled already.
compile_rejects_compiled ==
    /\ pc = "idle"
    /\ LET deps == dependencies(resource_declarations)
       IN  IF SortPanics(DOMAIN passes, deps)
           THEN /\ result' = Result("compile", "Panic", NoPass)
                /\ UNCHANGED <<compiled, retry>>
           ELSE IF compiled # <<>>
                THEN /\ result' = Result("compile", "CompilationFailed", NoPass)
                     /\ UNCHANGED <<compiled, retry>>
                ELSE \E sort \in topological_sort(DOMAIN passes, deps) :
                         IF sort.kind = "Ok"
                         THEN /\ compiled' =
                                   << [ passes |-> sort.sorted,
                                        resource_dependencies |->
                                            resource_dependencies(resource_declarations) ] >>
                              /\ result' = Result("compile", "Ok", NoPass)
                              /\ retry' = IF retry = "removed" THEN "recovered" ELSE "none"
                         ELSE /\ UNCHANGED compiled
                              /\ result' = Result("compile", sort.kind, NoPass)
                              /\ retry' = "failed"
    /\ UNCHANGED <<passes, resource_declarations>>
    /\ NoPassWork

\* RenderGraph::compile
compile ==
    /\ pc = "idle"
    /\ LET deps == dependencies(resource_declarations)
       IN  IF SortPanics(DOMAIN passes, deps)
           THEN /\ result' = Result("compile", "Panic", NoPass)
                /\ UNCHANGED <<compiled, retry>>
           ELSE \E sort \in topological_sort(DOMAIN passes, deps) :
                    IF sort.kind = "Ok"
                    THEN /\ compiled' =
                              << [ passes |-> sort.sorted,
                                   resource_dependencies |->
                                       resource_dependencies(resource_declarations) ] >>
                         /\ result' = Result("compile", "Ok", NoPass)
                         /\ retry' = IF retry = "removed" THEN "recovered" ELSE "none"
                    ELSE /\ UNCHANGED compiled
                         /\ result' = Result("compile", sort.kind, NoPass)
                         /\ retry' = "failed"
    /\ UNCHANGED <<passes, resource_declarations>>
    /\ NoPassWork

\* ------------------------------------------------------ initialize_passes

\* The two ForwardRenderPass types: the one of render_graph.rs and the one
\* of render_passes/forward_pass.rs.
ForwardModules == {"render_graph", "render_passes"}

\* ForwardRenderPass::new(..).with_resource(..): no pipeline, not
\* initialized.  initialize_calls and pipelines_created count the
\* initialize() calls made on the pass and the create_render_pipeline calls
\* it has made.
ForwardRenderPass(id, module, decls) ==
    [id |-> id, resources |-> decls, module |-> module,
     render_pipeline |-> <<>>, initialized |-> FALSE,
     initialize_calls |-> 0, pipelines_created |-> 0]

\* The pass is a ForwardRenderPass (a PlaceholderPass has no such fields).
IsForward(pass) == "initialized" \in DOMAIN pass

\* The device and the resource manager as initialize() is handed them.
Gpu ==
    [HANDLE_COUNTER |-> HANDLE_COUNTER, resources |-> resources,
     device_objects |-> device_objects, issued |-> issued,
     rm_result |-> rm_result, rm_entry |-> rm_entry]

\* ResourceManager::create_shader on the record `gpu`: as create("Shader").
create_shader(gpu) ==
    LET id == gpu.HANDLE_COUNTER
        object == gpu.device_objects + 1
    IN  [HANDLE_COUNTER |-> gpu.HANDLE_COUNTER + 1,
         resources |-> MapInsert(gpu.resources, id, Resource("Shader", object)),
         device_objects |-> object,
         issued |-> Append(gpu.issued, [id |-> id, kind |-> "Shader", object |-> object]),
         rm_result |-> RmResult("create", id, "Shader", "Handle", object, NoName),
         rm_entry |-> gpu.resources]

\* The device creating one more object that no table holds (a shader module,
\* a pipeline layout, a render pipeline).
device_create(gpu) == [gpu EXCEPT !.device_objects = @ + 1]

\* What the body of initialize() does once past the flag.
\* render_graph.rs: create_shader_module, create_pipeline_layout,
\* create_render_pipeline on the device.  render_passes/forward_pass.rs:
\* create_default_shaders puts two shaders in the resource manager, build
\* finds them, then create_pipeline_layout and create_render_pipeline.
create_pass_pipeline(pass, gpu) ==
    LET made == IF pass.module = "render_passes"
                THEN device_create(device_create(create_shader(create_shader(gpu))))
                ELSE device_create(device_create(device_create(gpu)))
    IN  [kind |-> "Ok",
         pass |-> [pass EXCEPT !.render_pipeline = <<made.device_objects>>,
                               !.initialized = TRUE,
                               !.initialize_calls = @ + 1,
                               !.pipelines_created = @ + 1],
         gpu |-> made]

\* initialize() without the test of the flag.
initialize_unguarded(pass, gpu) ==
    IF ~IsForward(pass)
    THEN [kind |-> "Ok", pass |-> pass, gpu |-> gpu]
    ELSE create_pass_pipeline(pass, gpu)

\* RenderPass::initialize.  PlaceholderPass: nothing to do.
\* ForwardRenderPass: return at once when initialized, else create the
\* pipeline, keep it and set the flag.
initialize(pass, gpu) ==
    IF ~IsForward(pass)
    THEN [kind |-> "Ok", pass |-> pass, gpu |-> gpu]
    ELSE IF pass.initialized
         THEN [kind |-> "Ok",
               pass |-> [pass EXCEPT !.initialize_calls = @ + 1],
               gpu |-> gpu]
         ELSE create_pass_pipeline(pass, gpu)

\* RenderGraph::initialize_passes, the loop over passes.iter_mut() taken in
\* the order `order`, from its i-th pass on: initialize each pass, stop at
\* the first error.
RECURSIVE InitializeLoop(_, _, _, _)
InitializeLoop(order, i, table, gpu) ==
    IF i > Len(order)
    THEN [kind |-> "Ok", passes |-> table, gpu |-> gpu]
    ELSE LET done == initialize(table[order[i]], gpu)
         IN  IF done.kind # "Ok"
             THEN [kind |-> done.kind,
                   passes |-> [table EXCEPT ![order[i]] = done.pass],
                   gpu |-> done.gpu]
             ELSE InitializeLoop(order, i + 1,
                                 [table EXCEPT ![order[i]] = done.pass], done.gpu)

\* RenderGraph::initialize_passes.  (Not called once a pass has counted
\* MaxInitCalls calls.)
initialize_passes ==
    /\ pc = "idle"
    /\ \A p \in DOMAIN passes :
           IsForward(passes[p]) => passes[p].initialize_calls < MaxInitCalls
    /\ \E order \in IterationOrders(DOMAIN passes) :
           LET out == InitializeLoop(order, 1, passes, Gpu)
           IN  /\ passes' = out.passes
               /\ HANDLE_COUNTER' = out.gpu.HANDLE_COUNTER
               /\ resources' = out.gpu.resources
               /\ device_objects' = out.gpu.device_objects
               /\ issued' = out.gpu.issued
               /\ rm_result' = out.gpu.rm_result
               /\ rm_entry' = out.gpu.rm_entry
               /\ result' = Result("initialize_passes", out.kind, NoPass)
    /\ UNCHANGED <<resource_declarations, compiled, retry>>
    /\ UNCHANGED <<named_resources, removed_at, published>>
    /\ NoPassWork

\* ---------------------------------------------------------------- execute

\* What a pass's execute() may return; the graph treats passes opaquely.
PassOutcomes == {"Ok", "Err"}

\* execute compiling the graph itself when it finds no cache.
execute_begin_compiling ==
    /\ pc = "idle"
    /\ CallEntry
    /\ invoked' = <<>>
    /\ submitted' = 0
    /\ \E sort \in topological_sort(DOMAIN passes, dependencies(resource_declarations)) :
        IF compiled = <<>> /\ sort.kind # "Ok"
        THEN /\ result' = Result("execute", "CompilationFailed", NoPass)
             /\ UNCHANGED <<pc, cursor, compiled>>
        ELSE /\ compiled' =
                  IF compiled # <<>> THEN compiled
                  ELSE << [ passes |-> sort.sorted,
                            resource_dependencies |->
                                resource_dependencies(resource_declarations) ] >>
             /\ pc' = "executing"
             /\ cursor' = 1
             /\ UNCHANGED result
    /\ UNCHANGED <<passes, resource_declarations, retry>>

\* RenderGraph::execute, entry: take the cache or fail; open the encoder.
execute_begin ==
    /\ pc = "idle"
    /\ CallEntry
    /\ invoked' = <<>>
    /\ submitted' = 0
    /\ IF compiled = <<>>
       THEN /\ result' = Result("execute", "CompilationFailed", NoPass)
            /\ UNCHANGED <<pc, cursor>>
       ELSE /\ pc' = "executing"
            /\ cursor' = 1
            /\ UNCHANGED result
    /\ UNCHANGED <<passes, resource_declarations, compiled, retry>>

\* One pass.execute() call as the graph sees it.
Invocation(pass_id, outcome) == [id |-> pass_id, outcome |-> outcome]

\* execute going on to the next pass after a pass has failed.
execute_pass_continues(outcome) ==
    /\ pc = "executing"
    /\ cursor <= Len(compiled[1].passes)
    /\ LET pass_id == compiled[1].passes[cursor]
       IN  IF pass_id \notin DOMAIN passes
           THEN /\ result' = Result("execute", "PassNotFound", pass_id)
                /\ pc' = "idle"
                /\ UNCHANGED <<cursor, invoked>>
           ELSE /\ invoked' = Append(invoked, Invocation(pass_id, outcome))
                /\ cursor' = cursor + 1
                /\ UNCHANGED <<pc, result>>
    /\ UNCHANGED <<passes, resource_declarations, compiled, submitted, entry, retry>>

\* execute submitting the encoder after every pass.
execute_pass_submits(outcome) ==
    /\ pc = "executing"
    /\ cursor <= Len(compiled[1].passes)
    /\ LET pass_id == compiled[1].passes[cursor]
       IN  IF pass_id \notin DOMAIN passes
           THEN /\ result' = Result("execute", "PassNotFound", pass_id)
                /\ pc' = "idle"
                /\ UNCHANGED <<cursor, invoked, submitted>>
           ELSE /\ invoked' = Append(invoked, Invocation(pass_id, outcome))
                /\ IF outcome = "Ok"
                   THEN /\ cursor' = cursor + 1
                        /\ submitted' = submitted + 1
                        /\ UNCHANGED <<pc, result>>
                   ELSE /\ result' = Result("execute", "ExecutionFailed", pass_id)
                        /\ pc' = "idle"
                        /\ UNCHANGED <<cursor, submitted>>
    /\ UNCHANGED <<passes, resource_declarations, compiled, entry, retry>>

\* execute stepping over the pass after each one it runs.
execute_pass_skips(outcome) ==
    /\ pc = "executing"
    /\ cursor <= Len(compiled[1].passes)
    /\ LET pass_id == compiled[1].passes[cursor]
       IN  IF pass_id \notin DOMAIN passes
           THEN /\ result' = Result("execute", "PassNotFound", pass_id)
                /\ pc' = "idle"
                /\ UNCHANGED <<cursor, invoked>>
           ELSE /\ invoked' = Append(invoked, Invocation(pass_id, outcome))
                /\ IF outcome = "Ok"
                   THEN /\ cursor' = cursor + 2
                        /\ UNCHANGED <<pc, result>>
                   ELSE /\ result' = Result("execute", "ExecutionFailed", pass_id)
                        /\ pc' = "idle"
                        /\ UNCHANGED cursor
    /\ UNCHANGED <<passes, resource_declarations, compiled, submitted, entry, retry>>

\* execute dropping the cached order when a pass fails.
execute_pass_invalidates(outcome) ==
    /\ pc = "executing"
    /\ cursor <= Len(compiled[1].passes)
    /\ LET pass_id == compiled[1].passes[cursor]
       IN  IF pass_id \notin DOMAIN passes
           THEN /\ result' = Result("execute", "PassNotFound", pass_id)
                /\ pc' = "idle"
                /\ UNCHANGED <<cursor, invoked, compiled>>
           ELSE /\ invoked' = Append(invoked, Invocation(pass_id, outcome))
                /\ IF outcome = "Ok"
                   THEN /\ cursor' = cursor + 1
                        /\ UNCHANGED <<pc, result, compiled>>
                   ELSE /\ result' = Result("execute", "ExecutionFailed", pass_id)
                        /\ pc' = "idle"
                        /\ compiled' = <<>>
                        /\ UNCHANGED cursor
    /\ UNCHANGED <<passes, resource_declarations, submitted, entry, retry>>

\* RenderGraph::execute, one iteration of the loop over compiled.passes: look
\* the pass up, invoke it, and stop at its error.
execute_pass(outcome) ==
    /\ pc = "executing"
    /\ cursor <= Len(compiled[1].passes)
    /\ LET pass_id == compiled[1].passes[cursor]
       IN  IF pass_id \notin DOMAIN passes
           THEN /\ result' = Result("execute", "PassNotFound", pass_id)
                /\ pc' = "idle"
                /\ UNCHANGED <<cursor, invoked>>
           ELSE /\ invoked' = Append(invoked, Invocation(pass_id, outcome))
                /\ IF outcome = "Ok"
                   THEN /\ cursor' = cursor + 1
                        /\ UNCHANGED <<pc, result>>
                   ELSE /\ result' = Result("execute", "ExecutionFailed", pass_id)
                        /\ pc' = "idle"
                        /\ UNCHANGED cursor
    /\ UNCHANGED <<passes, resource_declarations, compiled, submitted, entry, retry>>

\* RenderGraph::execute, after the loop: submit the finished encoder once.
execute_submit ==
    /\ pc = "executing"
    /\ cursor > Len(compiled[1].passes)
    /\ submitted' = submitted + 1
    /\ result' = Result("execute", "Ok", NoPass)
    /\ pc' = "idle"
    /\ UNCHANGED <<passes, resource_declarations, compiled, cursor, invoked, entry, retry>>

\* -------------------------------------------------------- resource manager

\* ResourceManager::resource_count
resource_count == Cardinality(DOMAIN resources)

\* The handle id taken from the size of the table.
next_handle_id_from_count == resource_count + 1

\* next_handle_id: HANDLE_COUNTER.fetch_add(1), which returns the value the
\* counter had.
next_handle_id == HANDLE_COUNTER

\* create_<kind> handing out the smallest id that is not in the table.
create_lowest_free_id(kind) ==
    /\ HANDLE_COUNTER <= MaxCreates
    /\ LET id == CHOOSE i \in 1..MaxCreates :
                    /\ i \notin DOMAIN resources
                    /\ \A j \in 1..(i - 1) : j \in DOMAIN resources
           object == device_objects + 1
       IN  /\ HANDLE_COUNTER' = HANDLE_COUNTER + 1
           /\ device_objects' = object
           /\ resources' = MapInsert(resources, id, Resource(kind, object))
           /\ issued' = Append(issued, [id |-> id, kind |-> kind, object |-> object])
           /\ rm_result' = RmResult("create", id, kind, "Handle", object, NoName)
    /\ rm_entry' = resources
    /\ UNCHANGED <<named_resources, removed_at, published>>

\* create_<kind> that stores nothing.
create_without_insert(kind) ==
    /\ HANDLE_COUNTER <= MaxCreates
    /\ LET id == next_handle_id
           object == device_objects + 1
       IN  /\ HANDLE_COUNTER' = HANDLE_COUNTER + 1
           /\ device_objects' = object
           /\ issued' = Append(issued, [id |-> id, kind |-> kind, object |-> object])
           /\ rm_result' = RmResult("create", id, kind, "Handle", object, NoName)
    /\ rm_entry' = resources
    /\ UNCHANGED <<resources, named_resources, removed_at, published>>

\* ResourceManager::create_buffer, create_buffer_init, create_texture,
\* create_shader, ...: have the device create the object, take the next
\* handle id, insert the object under it, return the handle.
create(kind) ==
    /\ HANDLE_COUNTER <= MaxCreates
    /\ LET id == next_handle_id
           object == device_objects + 1
       IN  /\ HANDLE_COUNTER' = HANDLE_COUNTER + 1
           /\ device_objects' = object
           /\ resources' = MapInsert(resources, id, Resource(kind, object))
           /\ issued' = Append(issued, [id |-> id, kind |-> kind, object |-> object])
           /\ rm_result' = RmResult("create", id, kind, "Handle", object, NoName)
    /\ rm_entry' = resources
    /\ UNCHANGED <<named_resources, removed_at, published>>

\* get_<kind> returning whatever entry is stored under the id.
get_any_kind(kind, id) ==
    /\ rm_result' =
           IF id \in DOMAIN resources
           THEN RmResult("get", id, kind, "Ok", resources[id].object, NoName)
           ELSE RmResult("get", id, kind, "ResourceNotFound", NoObject, NoName)
    /\ rm_entry' = resources
    /\ UNCHANGED <<HANDLE_COUNTER, resources, named_resources, device_objects,
                   issued, removed_at, published>>

\* ResourceManager::get_buffer, get_texture, get_shader, ...: match on the
\* entry under the handle's id.
get(kind, id) ==
    /\ rm_result' =
           IF id \in DOMAIN resources
           THEN IF resources[id].kind = kind
                THEN RmResult("get", id, kind, "Ok", resources[id].object, NoName)
                ELSE RmResult("get", id, kind, "TypeMismatch", NoObject, NoName)
           ELSE RmResult("get", id, kind, "ResourceNotFound", NoObject, NoName)
    /\ rm_entry' = resources
    /\ UNCHANGED <<HANDLE_COUNTER, resources, named_resources, device_objects,
                   issued, removed_at, published>>

\* remove_resource reporting true whatever it found.
remove_resource_always_true(id) ==
    /\ resources' = MapRemove(resources, id)
    /\ removed_at' = MapInsert(removed_at, id, HANDLE_COUNTER)
    /\ rm_result' = RmResult("remove_resource", id, NoKind, "true", NoObject, NoName)
    /\ rm_entry' = resources
    /\ UNCHANGED <<HANDLE_COUNTER, named_resources, device_objects, issued, published>>

\* ResourceManager::remove_resource: resources.remove(&id).is_some()
remove_resource(id) ==
    /\ resources' = MapRemove(resources, id)
    /\ removed_at' = IF id \in DOMAIN resources
                     THEN MapInsert(removed_at, id, HANDLE_COUNTER)
                     ELSE removed_at
    /\ rm_result' =
           RmResult("remove_resource", id, NoKind,
                    IF id \in DOMAIN resources THEN "true" ELSE "false",
                    NoObject, NoName)
    /\ rm_entry' = resources
    /\ UNCHANGED <<HANDLE_COUNTER, named_resources, device_objects, issued, published>>

\* clear leaving the table as it is.
clear_resources_keeps_table ==
    /\ rm_result' = RmResult("clear", NoId, NoKind, "Ok", NoObject, NoName)
    /\ rm_entry' = resources
    /\ UNCHANGED <<HANDLE_COUNTER, resources, named_resources, device_objects,
                   issued, removed_at, published>>

\* ResourceManager::clear: resources.clear()
clear_resources ==
    /\ resources' = EmptyMap
    /\ rm_result' = RmResult("clear", NoId, NoKind, "Ok", NoObject, NoName)
    /\ rm_entry' = resources
    /\ UNCHANGED <<HANDLE_COUNTER, named_resources, device_objects, issued,
                   removed_at, published>>

\* The publish_named calls made under a name, the last two of them, and the
\* same after one more.
Published(name) == IF name \in DOMAIN published THEN published[name] ELSE <<>>

PublishedThen(name, id) ==
    IF Published(name) = <<>>
    THEN <<id>>
    ELSE <<Published(name)[Len(Published(name))], id>>

\* publish_named keeping the first handle published under a name.
publish_named_keeps_first(name, id) ==
    /\ named_resources' =
           IF name \in DOMAIN named_resources
           THEN named_resources
           ELSE MapInsert(named_resources, name, id)
    /\ published' = MapInsert(published, name, PublishedThen(name, id))
    /\ rm_result' = RmResult("publish_named", id, NoKind, "Ok", NoObject, name)
    /\ rm_entry' = resources
    /\ UNCHANGED <<HANDLE_COUNTER, resources, device_objects, issued, removed_at>>

\* ResourceManager::publish_named(name, handle): the name now stands for the
\* handle.
publish_named(name, id) ==
    /\ named_resources' = MapInsert(named_resources, name, id)
    /\ published' = MapInsert(published, name, PublishedThen(name, id))
    /\ rm_result' = RmResult("publish_named", id, NoKind, "Ok", NoObject, name)
    /\ rm_entry' = resources
    /\ UNCHANGED <<HANDLE_COUNTER, resources, device_objects, issued, removed_at>>

\* ResourceManager::get_named_resource(name): Some(the handle the name stands
\* for), or None.
get_named_resource(name) ==
    /\ rm_result' =
           IF name \in DOMAIN named_resources
           THEN RmResult("get_named_resource", named_resources[name], NoKind,
                         "Some", NoObject, name)
           ELSE RmResult("get_named_resource", NoId, NoKind, "None", NoObject, name)
    /\ rm_entry' = resources
    /\ UNCHANGED <<HANDLE_COUNTER, resources, named_resources, device_objects,
                   issued, removed_at, published>>

\* ------------------------------------------- create_*, thread by thread

\* The table of the manager a thread owns (each manager is behind a &mut, so
\* one thread at a time is in it).
resources_of(t) == IF t = "this" THEN resources ELSE other_resources

\* create_* with the counter's new value taken as the id (add, then fetch).
create_fetch_returns_new(t, kind) ==
    /\ in_flight[t] = <<>>
    /\ HANDLE_COUNTER <= MaxCreates
    /\ LET id == HANDLE_COUNTER + 1
           object == device_objects + 1
       IN  /\ HANDLE_COUNTER' = HANDLE_COUNTER + 1
           /\ device_objects' = object
           /\ in_flight' = [in_flight EXCEPT ![t] = <<[id |-> id, kind |-> kind, object |-> object]>>]
           /\ issued' = Append(issued, [id |-> id, kind |-> kind, object |-> object, by |-> t])
    /\ UNCHANGED <<resources, other_resources, named_resources, removed_at,
                   published, rm_result, rm_entry>>

\* create_* with a counter per manager: the id is one more than the number
\* of entries of the caller's own table.
create_fetch_per_manager(t, kind) ==
    /\ in_flight[t] = <<>>
    /\ HANDLE_COUNTER <= MaxCreates
    /\ LET id == Cardinality(DOMAIN resources_of(t)) + 1
           object == device_objects + 1
       IN  /\ HANDLE_COUNTER' = HANDLE_COUNTER + 1
           /\ device_objects' = object
           /\ in_flight' = [in_flight EXCEPT ![t] = <<[id |-> id, kind |-> kind, object |-> object]>>]
           /\ issued' = Append(issued, [id |-> id, kind |-> kind, object |-> object, by |-> t])
    /\ UNCHANGED <<resources, other_resources, named_resources, removed_at,
                   published, rm_result, rm_entry>>

\* ResourceManager::create_<kind> on thread t, up to the id: the device
\* creates the object, and next_handle_id() takes the id with one atomic
\* fetch_add on the counter all managers of the process share.
create_fetch(t, kind) ==
    /\ in_flight[t] = <<>>
    /\ HANDLE_COUNTER <= MaxCreates
    /\ LET id == next_handle_id
           object == device_objects + 1
       IN  /\ HANDLE_COUNTER' = HANDLE_COUNTER + 1
           /\ device_objects' = object
           /\ in_flight' = [in_flight EXCEPT ![t] = <<[id |-> id, kind |-> kind, object |-> object]>>]
           /\ issued' = Append(issued, [id |-> id, kind |-> kind, object |-> object, by |-> t])
    /\ UNCHANGED <<resources, other_resources, named_resources, removed_at,
                   published, rm_result, rm_entry>>

\* ResourceManager::create_<kind> on thread t, from the id on: insert the
\* object under the id in the caller's table and return the handle.
create_insert(t) ==
    /\ in_flight[t] # <<>>
    /\ LET call == in_flight[t][1]
       IN  IF t = "this"
           THEN /\ resources' = MapInsert(resources, call.id, Resource(call.kind, call.object))
                /\ rm_result' = RmResult("create", call.id, call.kind, "Handle", call.object, NoName)
                /\ rm_entry' = resources
                /\ UNCHANGED other_resources
           ELSE /\ other_resources' = MapInsert(other_resources, call.id, Resource(call.kind, call.object))
                /\ UNCHANGED <<resources, rm_result, rm_entry>>
    /\ in_flight' = [in_flight EXCEPT ![t] = <<>>]
    /\ UNCHANGED <<HANDLE_COUNTER, device_objects, issued, named_resources,
                   removed_at, published>>

\* ------------------------------------------------------------------ scene

\* SceneNode::new / with_name calls begun so far, returned or not.
node_calls == Len(nodes) + Cardinality({ t \in Threads : node_call[t] # <<>> })

\* next_node_id() on thread t, `let id = NODE_COUNTER;`: a plain read of the
\* static mut, nothing keeping other threads out.
next_node_id_read(t) ==
    /\ node_call[t] = <<>>
    /\ node_calls < MaxNodes
    /\ node_call' = [node_call EXCEPT ![t] = <<NODE_COUNTER>>]
    /\ UNCHANGED <<NODE_COUNTER, nodes>>

\* next_node_id() on thread t, `NODE_COUNTER += 1;` and the return into
\* SceneNode::new / with_name, which builds the node with the id read.  The
\* increment is an unsynchronised read and write of the static mut (a data
\* race when another thread is in the function): the value stored is one
\* more than the counter as it is now, or one more than the value this
\* thread read before, whichever load the build uses.
next_node_id_increment(t) ==
    /\ node_call[t] # <<>>
    /\ LET id == node_call[t][1]
       IN  /\ NODE_COUNTER' \in {NODE_COUNTER + 1, id + 1}
           /\ nodes' = Append(nodes, [id |-> id, by |-> t])
    /\ node_call' = [node_call EXCEPT ![t] = <<>>]

\* --------------------------------------------------------------- renderer

\* The ids the renderer uses, in the model's id spaces: the passes
\* "ClearPass" and "ForwardPass", and the resources "BackBuffer" and
\* "DepthBuffer" they declare.
ClearPassId == "A"
ForwardPassId == "B"
BackBuffer == "X"
DepthBuffer == "Y"

\* setup_default_render_graph: PlaceholderPass::new("ClearPass")
\*     .with_resource("BackBuffer", ResourceUsage::Write)
ClearPass == RenderPass(ClearPassId, with_resource(<<>>, BackBuffer, "Write"))

\* The forward pass declaring Write where the renderer declares ReadWrite.
ForwardPass_write_only ==
    ForwardRenderPass(ForwardPassId, "render_graph",
        with_resource(with_resource(<<>>, BackBuffer, "Write"),
                      DepthBuffer, "Write"))

\* setup_default_render_graph: ForwardRenderPass::new("ForwardPass")
\*     .with_resource("BackBuffer", ResourceUsage::ReadWrite)
\*     .with_resource("DepthBuffer", ResourceUsage::ReadWrite)
ForwardPass ==
    ForwardRenderPass(ForwardPassId, "render_graph",
        with_resource(with_resource(<<>>, BackBuffer, "ReadWrite"),
                      DepthBuffer, "ReadWrite"))

\* The renderer as a call finds it.
RdEntry ==
    rd_entry' = [initialized |-> renderer_initialized,
                 pass_count |-> pass_count,
                 frame_count |-> stats.frame_count]

\* ForwardRenderPass::execute, one render target: get_named_resource(name),
\* None becoming ResourceNotFound, then get_texture on the handle, its error
\* becoming ExecutionFailed.
NamedTexture(name) ==
    IF name \notin DOMAIN named_resources
    THEN "ResourceNotFound"
    ELSE IF named_resources[name] \notin DOMAIN resources
         THEN "ExecutionFailed"
         ELSE IF resources[named_resources[name]].kind # "Texture"
              THEN "ExecutionFailed"
              ELSE "Ok"

\* A forward pass that records its draw whatever the lookups returned.
pass_execute_ignores_lookup(pass) == "Ok"

\* RenderPass::execute as the graph sees its value.  PlaceholderPass: logs
\* and returns Ok.  ForwardRenderPass: the "BackBuffer" and then the
\* "DepthBuffer" lookup, each returning its error with `?`; the render pass
\* it records after them has no error path, with or without a pipeline.
pass_execute(pass) ==
    IF ~IsForward(pass)
    THEN "Ok"
    ELSE IF NamedTexture("BackBuffer") # "Ok"
         THEN "Err"
         ELSE IF NamedTexture("DepthBuffer") # "Ok" THEN "Err" ELSE "Ok"

\* What the pass under the cursor returns.
PassOutcome ==
    LET pass_id == compiled[1].passes[cursor]
    IN  IF pass_id \in DOMAIN passes THEN pass_execute(passes[pass_id]) ELSE "Err"

\* Renderer::initialize, entry: nothing to do when already initialized.
Renderer_initialize ==
    /\ rpc = "idle"
    /\ pc = "idle"
    /\ renderer_initialized \/ HANDLE_COUNTER <= MaxCreates
    /\ RdEntry
    /\ IF renderer_initialized
       THEN /\ rd_result' = RdResult("initialize", "Ok")
            /\ UNCHANGED rpc
       ELSE /\ rpc' = "setup_clear"
            /\ UNCHANGED rd_result
    /\ UNCHANGED <<renderer_initialized, stats>>
    /\ UNCHANGED <<graph_vars, manager_vars, process_vars>>

\* setup_default_render_graph: add the clear pass.
setup_add_clear_pass ==
    /\ rpc = "setup_clear"
    /\ add_pass(ClearPass)
    /\ rpc' = "setup_forward"
    /\ UNCHANGED <<renderer_initialized, stats, rd_result, rd_entry>>
    /\ UNCHANGED <<manager_vars, process_vars>>

\* setup_default_render_graph: add the forward pass.
setup_add_forward_pass ==
    /\ rpc = "setup_forward"
    /\ add_pass(ForwardPass)
    /\ rpc' = "setup_compile"
    /\ UNCHANGED <<renderer_initialized, stats, rd_result, rd_entry>>
    /\ UNCHANGED <<manager_vars, process_vars>>

\* setup_default_render_graph: self.render_graph.compile()?, the error
\* returned from initialize.
setup_compile ==
    /\ rpc = "setup_compile"
    /\ compile
    /\ IF result'.kind = "Ok"
       THEN /\ rpc' = "default_resources"
            /\ UNCHANGED rd_result
       ELSE /\ rpc' = "idle"
            /\ rd_result' = RdResult("initialize", result'.kind)
    /\ UNCHANGED <<renderer_initialized, stats, rd_entry>>
    /\ UNCHANGED <<manager_vars, process_vars>>

\* Renderer::initialize, from create_default_resources on: the depth
\* texture is created (its handle is dropped), and initialized is set.
create_default_resources ==
    /\ rpc = "default_resources"
    /\ create("Texture")
    /\ renderer_initialized' = TRUE
    /\ rd_result' = RdResult("initialize", "Ok")
    /\ rpc' = "idle"
    /\ UNCHANGED <<stats, rd_entry>>
    /\ UNCHANGED <<graph_vars, process_vars>>

\* resize dropping the textures of the table before it creates the new one.
Renderer_resize_replaces ==
    /\ rpc = "idle"
    /\ pc = "idle"
    /\ RdEntry
    /\ rd_result' = RdResult("resize", "Ok")
    /\ IF renderer_initialized
       THEN /\ HANDLE_COUNTER <= MaxCreates
            /\ LET id == next_handle_id
                   object == device_objects + 1
               IN  /\ HANDLE_COUNTER' = HANDLE_COUNTER + 1
                   /\ device_objects' = object
                   /\ resources' = MapInsert(EmptyMap, id, Resource("Texture", object))
                   /\ issued' = Append(issued,
                                       [id |-> id, kind |-> "Texture", object |-> object])
                   /\ rm_result' = RmResult("create", id, "Texture", "Handle", object, NoName)
            /\ rm_entry' = resources
            /\ UNCHANGED <<named_resources, removed_at, published>>
       ELSE UNCHANGED manager_vars
    /\ UNCHANGED <<renderer_initialized, stats, rpc>>
    /\ UNCHANGED <<graph_vars, process_vars>>

\* Renderer::resize: the surface is resized, and the default resources are
\* created again when the renderer is initialized.
Renderer_resize ==
    /\ rpc = "idle"
    /\ pc = "idle"
    /\ RdEntry
    /\ rd_result' = RdResult("resize", "Ok")
    /\ IF renderer_initialized
       THEN create("Texture")
       ELSE UNCHANGED manager_vars
    /\ UNCHANGED <<renderer_initialized, stats, rpc>>
    /\ UNCHANGED <<graph_vars, process_vars>>

\* render counting the frame as it is entered.
Renderer_render_counts_attempts ==
    /\ rpc = "idle"
    /\ pc = "idle"
    /\ stats.frame_count < MaxFrames
    /\ RdEntry
    /\ IF renderer_initialized
       THEN /\ rpc' = "build_frame"
            /\ UNCHANGED rd_result
       ELSE /\ rd_result' = RdResult("render", "Other")
            /\ UNCHANGED rpc
    /\ stats' = [stats EXCEPT !.frame_count = stats.frame_count + 1]
    /\ UNCHANGED renderer_initialized
    /\ UNCHANGED <<graph_vars, manager_vars, process_vars>>

\* Renderer::render, entry: an error when not initialized.
Renderer_render ==
    /\ rpc = "idle"
    /\ pc = "idle"
    /\ stats.frame_count < MaxFrames
    /\ RdEntry
    /\ IF renderer_initialized
       THEN /\ rpc' = "build_frame"
            /\ UNCHANGED rd_result
       ELSE /\ rd_result' = RdResult("render", "Other")
            /\ UNCHANGED rpc
    /\ UNCHANGED <<renderer_initialized, stats>>
    /\ UNCHANGED <<graph_vars, manager_vars, process_vars>>

\* build_frame_render_graph going on to execute without looking at the cache.
build_frame_render_graph_trusts_cache ==
    /\ rpc = "build_frame"
    /\ UNCHANGED graph_vars
    /\ rpc' = "execute"
    /\ UNCHANGED rd_result
    /\ UNCHANGED <<renderer_initialized, stats, rd_entry>>
    /\ UNCHANGED <<manager_vars, process_vars>>

\* build_frame_render_graph: compile()? when the graph is not compiled, the
\* error returned from render.
build_frame_render_graph ==
    /\ rpc = "build_frame"
    /\ IF ~is_compiled
       THEN /\ compile
            /\ IF result'.kind = "Ok"
               THEN /\ rpc' = "execute"
                    /\ UNCHANGED rd_result
               ELSE /\ rpc' = "idle"
                    /\ rd_result' = RdResult("render", result'.kind)
       ELSE /\ UNCHANGED graph_vars
            /\ rpc' = "execute"
            /\ UNCHANGED rd_result
    /\ UNCHANGED <<renderer_initialized, stats, rd_entry>>
    /\ UNCHANGED <<manager_vars, process_vars>>

\* Renderer::render: self.render_graph.execute(..)?, its entry.
render_execute_begin ==
    /\ rpc = "execute"
    /\ execute_begin
    /\ IF pc' = "executing"
       THEN /\ rpc' = "executing"
            /\ UNCHANGED rd_result
       ELSE /\ rpc' = "idle"
            /\ rd_result' = RdResult("render", result'.kind)
    /\ UNCHANGED <<renderer_initialized, stats, rd_entry>>
    /\ UNCHANGED <<manager_vars, process_vars>>

\* Renderer::render: execute's loop, one pass; its error is returned from
\* render.
render_execute_pass ==
    /\ rpc = "executing"
    /\ execute_pass(PassOutcome)
    /\ IF pc' = "executing"
       THEN UNCHANGED <<rpc, rd_result>>
       ELSE /\ rpc' = "idle"
            /\ rd_result' = RdResult("render", result'.kind)
    /\ UNCHANGED <<renderer_initialized, stats, rd_entry>>
    /\ UNCHANGED <<manager_vars, process_vars>>

\* Renderer::render: execute's submission.
render_execute_submit ==
    /\ rpc = "executing"
    /\ execute_submit
    /\ rpc' = "present"
    /\ UNCHANGED <<renderer_initialized, stats, rd_result, rd_entry>>
    /\ UNCHANGED <<manager_vars, process_vars>>

\* Renderer::render, after execute: present()? (WgpuGraphicsApi::present
\* returns Ok), then the statistics.
render_present ==
    /\ rpc = "present"
    /\ stats' = [frame_count |-> stats.frame_count + 1,
                 render_passes |-> pass_count]
    /\ rd_result' = RdResult("render", "Ok")
    /\ rpc' = "idle"
    /\ UNCHANGED <<renderer_initialized, rd_entry>>
    /\ UNCHANGED <<graph_vars, manager_vars, process_vars>>

\* Renderer::render, after execute: present()? on a GraphicsApi whose
\* present returns Err (the renderer holds a Box<dyn GraphicsApi>): the
\* error is returned, converted to RendererError::GraphicsError, before the
\* statistics are touched.
render_present_fails ==
    /\ rpc = "present"
    /\ rd_result' = RdResult("render", "GraphicsError")
    /\ rpc' = "idle"
    /\ UNCHANGED <<renderer_initialized, stats, rd_entry>>
    /\ UNCHANGED <<graph_vars, manager_vars, process_vars>>

\* Renderer::reset_stats: the statistics are RenderStats::default() again.
Renderer_reset_stats ==
    /\ rpc = "idle"
    /\ pc = "idle"
    /\ RdEntry
    /\ stats' = [frame_count |-> 0, render_passes |-> 0]
    /\ rd_result' = RdResult("reset_stats", "Ok")
    /\ UNCHANGED <<renderer_initialized, rpc>>
    /\ UNCHANGED <<graph_vars, manager_vars, process_vars>>

\* The passes a caller adds through render_graph_mut(): a placeholder that
\* takes the forward pass's id, and a placeholder beside the two passes,
\* with no declaration or closing a cycle with the first.
CallerPasses ==
    { RenderPass(ForwardPassId,
          with_resource(with_resource(<<>>, BackBuffer, "Read"), DepthBuffer, "Write")),
      RenderPass("C",
          with_resource(with_resource(<<>>, DepthBuffer, "Read"), BackBuffer, "Write")),
      RenderPass("C", <<>>) }

\* render_graph_mut().add_pass(..), between two Renderer calls.
caller_add_pass(pass) ==
    /\ rpc = "idle"
    /\ add_pass(pass)
    /\ UNCHANGED <<renderer_vars, manager_vars, process_vars>>

\* render_graph_mut().remove_pass(..), between two Renderer calls.
caller_remove_pass(id) ==
    /\ rpc = "idle"
    /\ remove_pass(id)
    /\ UNCHANGED <<renderer_vars, manager_vars, process_vars>>

\* resource_manager_mut().create_buffer / create_texture(..), between two
\* Renderer calls.
caller_create(kind) ==
    /\ rpc = "idle"
    /\ pc = "idle"
    /\ HANDLE_COUNTER <= MaxTargets
    /\ create(kind)
    /\ UNCHANGED <<graph_vars, renderer_vars, process_vars>>

\* resource_manager_mut().remove_resource(..), between two Renderer calls.
caller_remove_resource(id) ==
    /\ rpc = "idle"
    /\ pc = "idle"
    /\ remove_resource(id)
    /\ UNCHANGED <<graph_vars, renderer_vars, process_vars>>

\* resource_manager_mut().publish_named(..), between two Renderer calls.
caller_publish_named(name, id) ==
    /\ rpc = "idle"
    /\ pc = "idle"
    /\ publish_named(name, id)
    /\ UNCHANGED <<graph_vars, renderer_vars, process_vars>>

\* ------------------------------------------------------------ specification

\* The render graph on its own: the resource manager is not called.
Next ==
    \/ (\E pass \in PassInputs : add_pass(pass)) /\ UNCHANGED beside_graph
    \/ (\E id \in PassIds : remove_pass(id)) /\ UNCHANGED beside_graph
    \/ clear /\ UNCHANGED beside_graph
    \/ compile /\ UNCHANGED beside_graph
    \/ execute_begin /\ UNCHANGED beside_graph
    \/ (\E outcome \in PassOutcomes : execute_pass(outcome)) /\ UNCHANGED beside_graph
    \/ execute_submit /\ UNCHANGED beside_graph

Spec == Init /\ [][Next]_vars

\* compile() as a function of the pass table: a graph holding any table of
\* passes over DeclLists that add_pass can have built, not yet compiled, and
\* then compile() called on it (and called again).
InitCompile ==
    \E keys \in SUBSET PassIds :
        \E decls \in [keys -> DeclLists] :
            /\ ManagerNew
            /\ RendererNew
            /\ passes = [ id \in keys |-> RenderPass(id, decls[id]) ]
            /\ resource_declarations = decls
            /\ compiled = <<>>
            /\ pc = "idle"
            /\ cursor = 0
            /\ invoked = <<>>
            /\ submitted = 0
            /\ result = Result("add_pass", "Ok", NoPass)
            /\ entry = [compiled |-> FALSE, count |-> Cardinality(keys)]
            /\ retry = "none"

NextCompile == compile /\ UNCHANGED beside_graph

SpecCompile == InitCompile /\ [][NextCompile]_vars

\* The pass types a graph is initialized with.
PassTypes == {"PlaceholderPass"} \cup ForwardModules

\* initialize_passes on a graph holding any table of passes of these types,
\* none initialized yet (the forward passes declare what the renderer's
\* ForwardPass declares), called again and again.
InitInitialize ==
    \E keys \in SUBSET PassIds :
        \E types \in [keys -> PassTypes] :
            LET table ==
                    [ id \in keys |->
                        IF types[id] = "PlaceholderPass"
                        THEN RenderPass(id, <<>>)
                        ELSE ForwardRenderPass(id, types[id],
                                 with_resource(with_resource(<<>>, "X", "ReadWrite"),
                                               "Y", "ReadWrite")) ]
            IN  /\ ManagerNew
                /\ RendererNew
                /\ passes = table
                /\ resource_declarations = [ id \in keys |-> table[id].resources ]
                /\ compiled = <<>>
                /\ pc = "idle"
                /\ cursor = 0
                /\ invoked = <<>>
                /\ submitted = 0
                /\ result = Result("add_pass", "Ok", NoPass)
                /\ entry = [compiled |-> FALSE, count |-> Cardinality(keys)]
                /\ retry = "none"

NextInitialize == initialize_passes /\ UNCHANGED <<renderer_vars, process_vars>>

SpecInitialize == InitInitialize /\ [][NextInitialize]_vars

\* The handle table of the resource manager on its own, from
\* ResourceManager::new: any sequence of create_*, get_*, remove_resource and
\* clear, the ids and kinds of the handles passed drawn from HandleIds and
\* HandleKinds.
NextResources ==
    \/ (\E kind \in HandleKinds : create(kind)) /\ UNCHANGED beside_manager
    \/ (\E kind \in HandleKinds, id \in HandleIds : get(kind, id)) /\ UNCHANGED beside_manager
    \/ (\E id \in HandleIds : remove_resource(id)) /\ UNCHANGED beside_manager
    \/ clear_resources /\ UNCHANGED beside_manager

SpecResources == Init /\ [][NextResources]_vars

\* The ids create_* has issued.
IssuedIds == { issued[i].id : i \in DOMAIN issued }

\* The named resources of the resource manager: textures are created (the
\* targets the renderer creates), the table is cleared, handles that were
\* issued are published under names and looked up by name.
NextNamed ==
    \/ create("Texture") /\ UNCHANGED beside_manager
    \/ clear_resources /\ UNCHANGED beside_manager
    \/ (\E name \in ResourceNames, id \in IssuedIds : publish_named(name, id))
           /\ UNCHANGED beside_manager
    \/ (\E name \in ResourceNames : get_named_resource(name)) /\ UNCHANGED beside_manager

SpecNamed == Init /\ [][NextNamed]_vars

\* ------------------------------------------------------------------ claims

\* What the declarations say, read off the table itself.
Declares(p, r, usages) ==
    \E i \in DOMAIN resource_declarations[p] :
        /\ resource_declarations[p][i].id = r
        /\ resource_declarations[p][i].usage \in usages

Writes(p, r) == Declares(p, r, {"Write", "ReadWrite"})

Reads(p, r) == Declares(p, r, {"Read", "ReadWrite"})

\* p reads a resource that another pass q writes.
DependsOn(p, q) ==
    p # q /\ \E r \in ResourceIds : Reads(p, r) /\ Writes(q, r)

\* The writer-to-reader graph has a directed cycle: some non-empty set of
\* passes in which every pass depends on a pass of the set.
HasCycle ==
    \E S \in (SUBSET DOMAIN resource_declarations) \ {{}} :
        \A p \in S : \E q \in S : DependsOn(p, q)

\* p and q both occur in the order, p earlier than q.
Before(order, p, q) ==
    \E i, j \in DOMAIN order : i < j /\ order[i] = p /\ order[j] = q

\* The last call was `op` and it returned `kind`.
Returned(op, kind) == pc = "idle" /\ result.op = op /\ result.kind = kind

\* The step is a call of compile / remove_pass / execute (its entry).
CompileCall == pc = "idle" /\ result'.op = "compile"

RemoveCall == pc = "idle" /\ result'.op = "remove_pass"

ExecuteCall == pc = "idle" /\ (pc' = "executing" \/ result'.op = "execute")

\* The ids of the passes invoked, in order.
InvokedIds == [ i \in DOMAIN invoked |-> invoked[i].id ]

\* C1: compile() on an acyclic set of passes succeeds, and in the order it
\* caches every writer of a resource comes before every other pass that
\* reads the resource without writing it.
C1_OrderRespectsDependencies ==
    (pc = "idle" /\ result.op = "compile" /\ ~HasCycle) =>
        /\ result.kind = "Ok"
        /\ is_compiled
        /\ \A r \in ResourceIds : \A w, rd \in DOMAIN resource_declarations :
               (w # rd /\ Writes(w, r) /\ Reads(rd, r) /\ ~Writes(rd, r))
                   => Before(execution_order, w, rd)

\* compile() has succeeded on three passes that form a chain: one reads what
\* another writes, which reads what the third writes.
C1_Witness ==
    /\ Returned("compile", "Ok")
    /\ pass_count = 3
    /\ \E p, q, t \in DOMAIN resource_declarations :
           /\ DependsOn(q, p) /\ DependsOn(t, q)
           /\ \E r \in ResourceIds : Writes(p, r) /\ Reads(q, r) /\ ~Writes(q, r)

\* C2: compile() returns CyclicDependency exactly when the writer-to-reader
\* graph of the current passes has a directed cycle, and Ok otherwise.
C2_CycleDetection ==
    (pc = "idle" /\ result.op = "compile") =>
        /\ (result.kind = "CyclicDependency") <=> HasCycle
        /\ (result.kind = "Ok") <=> ~HasCycle

\* compile() has rejected A (writes X), B (reads X, writes Y), C (reads Y,
\* writes X).
C2_Witness ==
    /\ Returned("compile", "CyclicDependency")
    /\ DOMAIN resource_declarations = {"A", "B", "C"}
    /\ Writes("A", "X") /\ ~Reads("A", "X") /\ ~Declares("A", "Y", ResourceUsage)
    /\ Reads("B", "X") /\ ~Writes("B", "X") /\ Writes("B", "Y") /\ ~Reads("B", "Y")
    /\ Reads("C", "Y") /\ ~Writes("C", "Y") /\ Writes("C", "X") /\ ~Reads("C", "X")

\* C3: when a pass fails during execute(), execute() returns ExecutionFailed
\* naming it, the passes invoked are exactly those of the order up to it, and
\* nothing is submitted; execute() does not go on after a failure.
C3_FailureAborts ==
    /\ pc = "executing" => \A i \in DOMAIN invoked : invoked[i].outcome = "Ok"
    /\ (pc = "idle" /\ \E i \in DOMAIN invoked : invoked[i].outcome = "Err") =>
           /\ is_compiled
           /\ LET k == Len(invoked)
              IN  /\ \A i \in 1..(k - 1) : invoked[i].outcome = "Ok"
                  /\ k <= Len(execution_order)
                  /\ InvokedIds = SubSeq(execution_order, 1, k)
                  /\ result = Result("execute", "ExecutionFailed", execution_order[k])
           /\ submitted = 0

\* Pass 2 of 3 has failed.
C3_Witness ==
    /\ Returned("execute", "ExecutionFailed")
    /\ Len(execution_order) = 3
    /\ Len(invoked) = 2
    /\ invoked[2].outcome = "Err"

\* C4: execute() on a graph that is not compiled returns CompilationFailed at
\* once: no pass is invoked, nothing is submitted, and the graph is still not
\* compiled afterwards.
C4_NoImplicitCompile ==
    [][ (ExecuteCall /\ ~is_compiled) =>
            /\ pc' = "idle"
            /\ result' = Result("execute", "CompilationFailed", NoPass)
            /\ invoked' = <<>>
            /\ submitted' = 0
            /\ ~is_compiled' ]_vars

\* execute() has refused a graph of passes that compile() would have accepted.
C4_Witness ==
    /\ Returned("execute", "CompilationFailed")
    /\ pass_count >= 2
    /\ ~HasCycle
    /\ ~is_compiled

\* C5: an execute() that returns Ok has submitted exactly once, and nothing is
\* submitted while passes of the order are still to run.
C5_SingleSubmission ==
    /\ pc = "executing" => submitted = 0
    /\ Returned("execute", "Ok") =>
           /\ submitted = 1
           /\ is_compiled
           /\ Len(invoked) = Len(execution_order)

\* execute() has returned Ok after three passes.
C5_Witness ==
    /\ Returned("execute", "Ok")
    /\ submitted = 1
    /\ Len(invoked) = 3

\* C6: execute() invokes the passes of execution_order() one after the other
\* in that order: at every moment the passes invoked so far are the order up
\* to the cursor, and on Ok each pass of the order was invoked exactly once.
C6_SequentialInOrder ==
    /\ pc = "executing" =>
           /\ is_compiled
           /\ cursor \in 1..(Len(execution_order) + 1)
           /\ InvokedIds = SubSeq(execution_order, 1, cursor - 1)
    /\ Returned("execute", "Ok") =>
           /\ is_compiled
           /\ InvokedIds = execution_order
           /\ \A i \in DOMAIN execution_order :
                  Cardinality({ j \in DOMAIN invoked :
                                  invoked[j].id = execution_order[i] }) = 1

\* execute() is between the second and the third pass of a chain.
C6_Witness ==
    /\ pc = "executing"
    /\ cursor = 3
    /\ Len(execution_order) = 3
    /\ DependsOn(execution_order[2], execution_order[1])
    /\ DependsOn(execution_order[3], execution_order[2])

\* C7: add_pass (of a new or of a present id) and clear leave the graph not
\* compiled; a graph that is not compiled becomes compiled only by compile(),
\* and execute() on it fails with CompilationFailed.
C7_AddAndClearInvalidate ==
    [][ /\ (pc = "idle" /\ result'.op \in {"add_pass", "clear"}) => ~is_compiled'
        /\ (~is_compiled /\ is_compiled') => result' = Result("compile", "Ok", NoPass)
        /\ (~is_compiled /\ ExecuteCall) =>
               result' = Result("execute", "CompilationFailed", NoPass) ]_vars

\* add_pass has replaced a pass of a compiled graph.
C7_Witness ==
    /\ Returned("add_pass", "Ok")
    /\ entry.compiled
    /\ entry.count = pass_count
    /\ ~is_compiled

\* C8 as stated: after remove_pass(id) on a compiled graph, whatever the id,
\* the graph is not compiled.
C8_AnyRemoveInvalidates ==
    (pc = "idle" /\ result.op = "remove_pass" /\ entry.compiled) => ~is_compiled

\* C8 as amended: remove_pass(id) on a compiled graph leaves it not compiled
\* when the id was in the graph (it returns true and the pass is gone), and
\* compiled when it was not (it returns false and the count is unchanged); a
\* graph that is not compiled refuses execute() with CompilationFailed.
C8_RemoveOfPresentInvalidates ==
    [][ /\ (RemoveCall /\ is_compiled) =>
               /\ result'.kind = "true" =>
                      ~is_compiled' /\ pass_count' = pass_count - 1
               /\ result'.kind = "false" =>
                      is_compiled' /\ pass_count' = pass_count
               /\ result'.kind \in {"true", "false"}
        /\ (result.op = "remove_pass" /\ ~is_compiled /\ ExecuteCall) =>
               result' = Result("execute", "CompilationFailed", NoPass) ]_vars

\* remove_pass has taken one of the three passes out of a compiled graph.
C8_Witness ==
    /\ Returned("remove_pass", "true")
    /\ entry.compiled
    /\ entry.count = 3
    /\ pass_count = 2
    /\ ~is_compiled

\* C9: a compile() never changes the pass table; when it returns
\* CyclicDependency the graph is not compiled; and the compile() that follows
\* the removal of a pass succeeds once no cycle is left.
C9_FailedCompileLeavesDirty ==
    [][ CompileCall =>
            /\ passes' = passes
            /\ resource_declarations' = resource_declarations
            /\ result'.kind = "CyclicDependency" => ~is_compiled'
            /\ (retry = "removed" /\ ~HasCycle) =>
                   result' = Result("compile", "Ok", NoPass) /\ is_compiled' ]_vars

\* compile() failed on a cycle, a pass was removed, and compile() succeeded.
C9_Witness ==
    /\ retry = "recovered"
    /\ Returned("compile", "Ok")
    /\ pass_count = 2

\* C10: whenever the graph is compiled, execution_order() lists every pass of
\* the table exactly once and nothing else.
C10_CacheMatchesPassSet ==
    is_compiled =>
        /\ Len(execution_order) = pass_count
        /\ \A i \in DOMAIN execution_order : execution_order[i] \in DOMAIN passes
        /\ \A p \in DOMAIN passes :
               Cardinality({ i \in DOMAIN execution_order : execution_order[i] = p }) = 1

\* A compiled graph of two passes has survived the removal of an absent id.
C10_Witness ==
    /\ is_compiled
    /\ pass_count = 2
    /\ Returned("remove_pass", "false")

\* C17: a new RenderGraph has no pass and is not compiled; add_pass on it
\* leaves exactly one pass; and compile() on a graph holding the one pass p
\* that add_pass put into an empty graph returns Ok with the order <<p>>.
C17_NewGraphOnePass ==
    [][ /\ result.op = "new" => (pass_count = 0 /\ ~is_compiled)
        /\ (result.op = "new" /\ result'.op = "add_pass") =>
               (pass_count' = 1 /\ ~is_compiled')
        /\ (CompileCall /\ result.op = "add_pass" /\ entry.count = 0) =>
               /\ result' = Result("compile", "Ok", NoPass)
               /\ is_compiled'
               /\ pass_count' = 1
               /\ \A p \in DOMAIN passes : execution_order' = <<p>> ]_vars

\* compile() has returned Ok with the order <<"B">> on a graph whose one
\* pass, B, reads and writes the same resource.
C17_Witness ==
    /\ Returned("compile", "Ok")
    /\ entry.count = 1
    /\ DOMAIN passes = {"B"}
    /\ execution_order = <<"B">>
    /\ Reads("B", "X") /\ Writes("B", "X")

\* Every resource that two or more passes declare is only read.
SharedResourcesReadOnly ==
    \A r \in ResourceIds :
        (\E p, q \in DOMAIN resource_declarations :
            p # q /\ Declares(p, r, ResourceUsage) /\ Declares(q, r, ResourceUsage))
        => \A p \in DOMAIN resource_declarations : ~Writes(p, r)

\* C18: every edge of the dependencies compile() builds comes from a
\* resource that the pass depended on writes, so a resource nobody writes
\* gives none; and compile() on passes whose shared resources are all
\* read-only returns Ok.
C18_ReadOnlyNoEdge ==
    (pc = "idle" /\ result.op = "compile") =>
        /\ \A p \in DOMAIN resource_declarations :
               \A q \in dependencies(resource_declarations)[p] :
                   \E r \in ResourceIds : Writes(q, r) /\ Reads(p, r)
        /\ SharedResourcesReadOnly => (result.kind = "Ok" /\ is_compiled)

\* compile() has returned Ok on three passes that all read X, which nobody
\* writes; one of them writes Y, which no other pass declares.
C18_Witness ==
    /\ Returned("compile", "Ok")
    /\ pass_count = 3
    /\ \A p \in DOMAIN resource_declarations : Reads(p, "X") /\ ~Writes(p, "X")
    /\ \E p \in DOMAIN resource_declarations : Writes(p, "Y")
    /\ SharedResourcesReadOnly

\* The passes p depends on, directly or through other passes (n rounds).
RECURSIVE Upstream(_, _)
Upstream(S, n) ==
    IF n = 0
    THEN S
    ELSE Upstream(S \cup { q \in DOMAIN resource_declarations :
                              \E p \in S : DependsOn(p, q) }, n - 1)

\* There is a dependency path from p back to q: q has to run before p.
PathTo(p, q) ==
    q \in Upstream({ x \in DOMAIN resource_declarations : DependsOn(p, x) },
                   Cardinality(PassIds))

\* p depends on no pass.
NoDependency(p) == \A q \in DOMAIN resource_declarations : ~DependsOn(p, q)

\* The orders compile() may cache for the current passes.
CompileOrders ==
    { sort.sorted :
        sort \in { s \in topological_sort(DOMAIN passes,
                                          dependencies(resource_declarations)) :
                      s.kind = "Ok" } }

\* C19 as stated: whenever the passes are acyclic, any two of them with no
\* dependency path between them can come out of compile() in either order.
C19_UnrelatedEitherOrder ==
    LET orders == CompileOrders
    IN  ~HasCycle =>
            \A p, q \in DOMAIN passes :
                (p # q /\ ~PathTo(p, q) /\ ~PathTo(q, p)) =>
                    \E order \in orders : Before(order, p, q)

\* C19 as amended: whenever the passes are acyclic, any two of them that
\* depend on no pass can come out of compile() in either order; and the
\* order a compile() has cached is one of the orders it may cache.
C19_IndependentEitherOrder ==
    LET orders == CompileOrders
    IN  /\ ~HasCycle =>
               \A p, q \in DOMAIN passes :
                   (p # q /\ NoDependency(p) /\ NoDependency(q)) =>
                       \E order \in orders : Before(order, p, q)
        /\ Returned("compile", "Ok") => execution_order \in orders

\* compile() has placed B before A, neither depending on any pass and C
\* depending on A, and could have placed A before B.
C19_Witness ==
    /\ Returned("compile", "Ok")
    /\ pass_count = 3
    /\ NoDependency("A") /\ NoDependency("B") /\ DependsOn("C", "A")
    /\ Before(execution_order, "B", "A")
    /\ \E order \in CompileOrders : Before(order, "A", "B")

\* C20: initialize_passes returns Ok and leaves every forward pass
\* initialized, holding a pipeline, having created exactly one; a pass that
\* was initialized before the call keeps its pipeline and creates nothing;
\* and a call that finds every pass initialized creates no object and no
\* resource.
C20_InitializeOnce ==
    [][ result'.op = "initialize_passes" =>
            /\ result'.kind = "Ok"
            /\ DOMAIN passes' = DOMAIN passes
            /\ \A p \in DOMAIN passes :
                   IsForward(passes[p]) =>
                       /\ passes'[p].initialized
                       /\ passes'[p].render_pipeline # <<>>
                       /\ passes'[p].pipelines_created = 1
                       /\ passes'[p].initialize_calls = passes[p].initialize_calls + 1
                       /\ passes[p].initialized =>
                              passes'[p].render_pipeline = passes[p].render_pipeline
            /\ (\A p \in DOMAIN passes :
                    IsForward(passes[p]) => passes[p].initialized) =>
                   /\ device_objects' = device_objects
                   /\ resources' = resources
                   /\ HANDLE_COUNTER' = HANDLE_COUNTER ]_vars

\* initialize_passes has been called twice on a graph holding a forward pass
\* of each type and a placeholder pass: each forward pass has created one
\* pipeline, and the two shaders of the one are the only resources.
C20_Witness ==
    /\ Returned("initialize_passes", "Ok")
    /\ pass_count = 3
    /\ \E p, q \in DOMAIN passes :
           /\ IsForward(passes[p]) /\ passes[p].module = "render_graph"
           /\ IsForward(passes[q]) /\ passes[q].module = "render_passes"
           /\ passes[p].initialize_calls = 2 /\ passes[p].pipelines_created = 1
           /\ passes[q].initialize_calls = 2 /\ passes[q].pipelines_created = 1
    /\ resource_count = 2

\* --------------------------------------------- claims: resource manager

\* The last resource-manager call was `op` and it returned `kind`.
RmReturned(op, kind) == rm_result.op = op /\ rm_result.kind = kind

\* The id was issued by a create_<kind> call.
IssuedAs(id, kind) ==
    \E i \in DOMAIN issued : issued[i].id = id /\ issued[i].kind = kind

\* C11: get_<kind>(handle) returns ResourceNotFound when the handle's id is
\* not in the table, TypeMismatch when the id is in the table under another
\* kind, and the stored object otherwise; the table after the call is the
\* table before it.
C11_GetErrors ==
    rm_result.op = "get" =>
        /\ resources = rm_entry
        /\ rm_result.id \notin DOMAIN rm_entry =>
               rm_result.kind = "ResourceNotFound"
        /\ (rm_result.id \in DOMAIN rm_entry
               /\ rm_entry[rm_result.id].kind # rm_result.type) =>
               rm_result.kind = "TypeMismatch"
        /\ (rm_result.id \in DOMAIN rm_entry
               /\ rm_entry[rm_result.id].kind = rm_result.type) =>
               rm_result.kind = "Ok"

\* The id create_texture issued has been passed to get_buffer, which
\* returned TypeMismatch, with another resource in the table.
C11_Witness ==
    /\ RmReturned("get", "TypeMismatch")
    /\ rm_result.type = "Buffer"
    /\ IssuedAs(rm_result.id, "Texture")
    /\ resource_count = 2

\* C12: an id that remove_resource has taken out of the table is never in the
\* table again, however many resources are created afterwards; get_* on it
\* returns ResourceNotFound, and a get_* that returns an object returns the
\* object that was created with the handle.
C12_StaleHandleNotFound ==
    /\ \A id \in DOMAIN removed_at : id \notin DOMAIN resources
    /\ (rm_result.op = "get" /\ rm_result.id \in DOMAIN removed_at) =>
           rm_result.kind = "ResourceNotFound"
    /\ RmReturned("get", "Ok") =>
           \E i \in DOMAIN issued :
               issued[i] = [id |-> rm_result.id, kind |-> rm_result.type,
                            object |-> rm_result.object]

\* get_* has returned ResourceNotFound for a handle that was removed, after
\* two resources of the handle's kind were created since the removal.
C12_Witness ==
    /\ RmReturned("get", "ResourceNotFound")
    /\ rm_result.id \in DOMAIN removed_at
    /\ IssuedAs(rm_result.id, rm_result.type)
    /\ HANDLE_COUNTER >= removed_at[rm_result.id] + 2
    /\ \A i \in DOMAIN issued : issued[i].kind = rm_result.type
    /\ resource_count = 2

\* C13: the ids create_* has issued are strictly increasing in the order of
\* issue (so none was issued twice), whatever remove_resource and clear calls
\* came in between.
C13_IdsStrictlyIncreasing ==
    \A i, j \in DOMAIN issued : i < j => issued[i].id < issued[j].id

\* A third id has been issued to a table that had been emptied, one of the
\* earlier ids having been removed by remove_resource before the second was
\* issued.
C13_Witness ==
    /\ RmReturned("create", "Handle")
    /\ Len(issued) = 3
    /\ rm_entry = EmptyMap
    /\ \E id \in DOMAIN removed_at : removed_at[id] = id + 1

\* C14: a create_<kind> call returns a handle, the table has one entry more
\* than before, and a get_<kind> of that kind on the handle right after it
\* returns Ok with the object the call stored.
C14_CreateAddsOne ==
    [][ /\ rm_result'.op = "create" =>
               /\ rm_result'.kind = "Handle"
               /\ resource_count' = resource_count + 1
               /\ rm_result'.id \notin DOMAIN resources
               /\ resources'[rm_result'.id] =
                      Resource(rm_result'.type, rm_result'.object)
        /\ (rm_result.op = "create" /\ rm_result'.op = "get"
               /\ rm_result'.id = rm_result.id
               /\ rm_result'.type = rm_result.type) =>
               /\ rm_result'.kind = "Ok"
               /\ rm_result'.object = rm_result.object ]_vars

\* The second create_* call has been followed by a get_* on its handle.
C14_Witness ==
    /\ RmReturned("get", "Ok")
    /\ Len(issued) = 2
    /\ issued[2] = [id |-> rm_result.id, kind |-> rm_result.type,
                    object |-> rm_result.object]
    /\ resource_count = 2

\* C15: remove_resource(h) returns true exactly when h's id is in the table;
\* on true the entry is gone and resource_count() is one less, on false the
\* table is unchanged; a second removal of the same id right after the first
\* returns false.
C15_RemoveReportsPresence ==
    [][ rm_result'.op = "remove_resource" =>
            /\ rm_result'.kind \in {"true", "false"}
            /\ rm_result'.kind = "true" <=> rm_result'.id \in DOMAIN resources
            /\ rm_result'.kind = "true" =>
                   /\ resource_count' = resource_count - 1
                   /\ rm_result'.id \notin DOMAIN resources'
            /\ rm_result'.kind = "false" => resources' = resources
            /\ (rm_result.op = "remove_resource" /\ rm_result.id = rm_result'.id) =>
                   rm_result'.kind = "false" ]_vars

\* remove_resource has returned false for an id it had removed before, with
\* another resource still in the table.
C15_Witness ==
    /\ RmReturned("remove_resource", "false")
    /\ rm_result.id \in DOMAIN removed_at
    /\ resources = rm_entry
    /\ resource_count = 1

\* C16: get_named_resource(name) returns Some(h) with h the handle of the
\* last publish_named(name, _) call, and None when no publish_named call was
\* made under the name.
C16_NamedLookup ==
    rm_result.op = "get_named_resource" =>
        IF Published(rm_result.name) = <<>>
        THEN rm_result.kind = "None"
        ELSE /\ rm_result.kind = "Some"
             /\ rm_result.id = Published(rm_result.name)[Len(Published(rm_result.name))]

\* A name was published twice, with different handles; the other name was
\* published with the first of them; the lookup returns the second.
C16_Witness ==
    /\ RmReturned("get_named_resource", "Some")
    /\ Len(Published(rm_result.name)) = 2
    /\ Published(rm_result.name)[1] # Published(rm_result.name)[2]
    /\ rm_result.id = Published(rm_result.name)[2]
    /\ \E other \in ResourceNames \ {rm_result.name} :
           Published(other) = <<Published(rm_result.name)[1]>>

\* The kinds the two threads create and look up.
ProcessKinds == {"Buffer", "Texture"}

\* Two managers of one process, each used from its own thread: create_* in
\* two steps on either, and get_* and remove_resource on the first.
NextProcess ==
    \/ (\E t \in Threads, kind \in ProcessKinds : create_fetch(t, kind))
           /\ UNCHANGED <<graph_vars, renderer_vars, scene_vars>>
    \/ (\E t \in Threads : create_insert(t))
           /\ UNCHANGED <<graph_vars, renderer_vars, scene_vars>>
    \/ (\E kind \in ProcessKinds, id \in HandleIds : get(kind, id))
           /\ UNCHANGED beside_manager
    \/ (\E id \in HandleIds : remove_resource(id)) /\ UNCHANGED beside_manager

SpecProcess == Init /\ [][NextProcess]_vars

\* Scene nodes constructed on two threads of the process.
NextScene ==
    \/ (\E t \in Threads : next_node_id_read(t))
           /\ UNCHANGED <<graph_vars, manager_vars, renderer_vars,
                          other_resources, in_flight>>
    \/ (\E t \in Threads : next_node_id_increment(t))
           /\ UNCHANGED <<graph_vars, manager_vars, renderer_vars,
                          other_resources, in_flight>>

SpecScene == Init /\ [][NextScene]_vars

\* The renderer and its caller: initialize, resize and render, and the
\* caller's changes to the graph between them.
NextRenderer ==
    \/ Renderer_initialize
    \/ setup_add_clear_pass
    \/ setup_add_forward_pass
    \/ setup_compile
    \/ create_default_resources
    \/ Renderer_resize
    \/ Renderer_render
    \/ build_frame_render_graph
    \/ render_execute_begin
    \/ render_execute_pass
    \/ render_execute_submit
    \/ render_present
    \/ render_present_fails
    \/ Renderer_reset_stats
    \/ \E pass \in CallerPasses : caller_add_pass(pass)
    \/ \E id \in PassIds : caller_remove_pass(id)

SpecRenderer == Init /\ [][NextRenderer]_vars

\* The renderer's graph as a successful initialize leaves it, and a manager
\* that has issued nothing yet.
InitFrame ==
    /\ ManagerNew
    /\ RendererNew
    /\ passes = MapInsert(MapInsert(EmptyMap, ClearPassId, ClearPass),
                          ForwardPassId, ForwardPass)
    /\ resource_declarations =
           MapInsert(MapInsert(EmptyMap, ClearPassId, ClearPass.resources),
                     ForwardPassId, ForwardPass.resources)
    /\ compiled = << [ passes |-> <<ClearPassId, ForwardPassId>>,
                       resource_dependencies |->
                           resource_dependencies(resource_declarations) ] >>
    /\ pc = "idle"
    /\ cursor = 0
    /\ invoked = <<>>
    /\ submitted = 0
    /\ result = Result("compile", "Ok", NoPass)
    /\ entry = [compiled |-> FALSE, count |-> 2]
    /\ retry = "none"

\* One frame after another on that graph: execute with the passes' own
\* return values, and the caller's create_*, remove_resource and
\* publish_named between two frames.
NextFrame ==
    \/ execute_begin /\ UNCHANGED beside_graph
    \/ execute_pass(PassOutcome) /\ UNCHANGED beside_graph
    \/ execute_submit /\ UNCHANGED beside_graph
    \/ \E kind \in ProcessKinds : caller_create(kind)
    \/ \E id \in IssuedIds : caller_remove_resource(id)
    \/ \E name \in ResourceNames, id \in IssuedIds : caller_publish_named(name, id)

SpecFrame == InitFrame /\ [][NextFrame]_vars

\* ------------------------------------------------------------ C21 to C25

\* The declarations of pass p, as a set of <<resource, usage>>.
DeclaredBy(p) ==
    { <<resource_declarations[p][i].id, resource_declarations[p][i].usage>> :
          i \in DOMAIN resource_declarations[p] }

\* The graph holds the two passes setup_default_render_graph adds, and no
\* other.
DefaultGraph ==
    /\ DOMAIN passes = {ClearPassId, ForwardPassId}
    /\ IsForward(passes[ForwardPassId])
    /\ ~IsForward(passes[ClearPassId])

\* C21: every forward pass that an execute() of the renderer has invoked had
\* its initialize step called before.  (A PlaceholderPass's initialize does
\* nothing and leaves no trace; the forward pass counts its calls.)
C21_InitializedBeforeExecute ==
    \A i \in DOMAIN invoked :
        (invoked[i].id \in DOMAIN passes /\ IsForward(passes[invoked[i].id])) =>
            passes[invoked[i].id].initialize_calls >= 1

\* C22: render calls execute() only on a compiled graph: when it finds the
\* graph not compiled it calls compile(), goes on to execute() when that
\* returned Ok, and otherwise returns the error at once, no pass invoked,
\* nothing submitted, the statistics as they were.
C22_RenderCompilesFirst ==
    [][ /\ (rpc = "build_frame" /\ ~is_compiled) =>
               /\ result'.op = "compile"
               /\ result'.kind = "Ok" => (is_compiled' /\ rpc' = "execute")
               /\ result'.kind # "Ok" =>
                      /\ rpc' = "idle"
                      /\ rd_result' = RdResult("render", result'.kind)
                      /\ ~is_compiled'
                      /\ pc' = "idle"
                      /\ invoked' = <<>>
                      /\ submitted' = 0
                      /\ stats' = stats
        /\ rpc = "execute" => is_compiled
        /\ (rpc # "idle" /\ pc' = "executing") => is_compiled' ]_vars

\* render has returned CyclicDependency from its compile(), no pass invoked,
\* after an earlier render that had to compile and went through.
C22_Witness ==
    /\ rpc = "idle"
    /\ rd_result = RdResult("render", "CyclicDependency")
    /\ rd_entry.initialized
    /\ result = Result("compile", "CyclicDependency", NoPass)
    /\ ~is_compiled
    /\ invoked = <<>>
    /\ stats.frame_count >= 1

\* C23: a render call on an initialized renderer, its graph the two passes
\* initialize set up, returns Ok and leaves frame_count one higher than it
\* found it.
C23_RenderAlwaysOk ==
    (rpc = "idle" /\ rd_result.op = "render" /\ rd_entry.initialized
        /\ DefaultGraph) =>
        /\ rd_result.kind = "Ok"
        /\ stats.frame_count = rd_entry.frame_count + 1

LookupFails(name) ==
    \/ name \notin DOMAIN named_resources
    \/ /\ name \in DOMAIN named_resources
       /\ \/ named_resources[name] \notin DOMAIN resources
          \/ /\ named_resources[name] \in DOMAIN resources
             /\ resources[named_resources[name]].kind # "Texture"

\* C25: when execute() comes to a forward pass and the lookup of
\* "BackBuffer" or of "DepthBuffer" fails, the pass returns an error, and
\* execute() returns ExecutionFailed naming the pass, having submitted
\* nothing.
C25_LookupFailureFailsExecute ==
    [][ (/\ pc = "executing"
         /\ invoked' # invoked
         /\ IsForward(passes[compiled[1].passes[cursor]])
         /\ LookupFails("BackBuffer") \/ LookupFails("DepthBuffer")) =>
            /\ invoked' = Append(invoked, Invocation(compiled[1].passes[cursor], "Err"))
            /\ pc' = "idle"
            /\ result' = Result("execute", "ExecutionFailed", compiled[1].passes[cursor])
            /\ submitted' = 0 ]_vars

\* execute() has returned ExecutionFailed for ForwardPass, after ClearPass
\* returned Ok: "BackBuffer" is published with a texture in the table,
\* "DepthBuffer" with a handle that is in the table as a buffer.
C25_Witness ==
    /\ pc = "idle"
    /\ result = Result("execute", "ExecutionFailed", ForwardPassId)
    /\ invoked = <<Invocation(ClearPassId, "Ok"), Invocation(ForwardPassId, "Err")>>
    /\ submitted = 0
    /\ ~LookupFails("BackBuffer")
    /\ "DepthBuffer" \in DOMAIN named_resources
    /\ named_resources["DepthBuffer"] \in DOMAIN resources
    /\ resources[named_resources["DepthBuffer"]].kind = "Buffer"

\* ------------------------------------------------------------ C26, C27

\* The handles issued to the manager of thread t, in the order of issue.
IssuedTo(t) == SelectSeq(issued, LAMBDA h : h.by = t)

\* C26 as stated: the first two handles a manager issues, when they come
\* from create_buffer and then create_texture, have the ids 1 and 2.
C26_FreshManagerIds ==
    LET mine == IssuedTo("this")
    IN  (Len(mine) >= 2 /\ mine[1].kind = "Buffer" /\ mine[2].kind = "Texture") =>
            (mine[1].id = 1 /\ mine[2].id = 2)

\* C26 as amended: when they are also the first two handles issued in the
\* process, the handles create_buffer and then create_texture return on a
\* new manager have the ids 1 and 2.
C26_FirstInProcessIds ==
    LET mine == IssuedTo("this")
    IN  (Len(mine) >= 2 /\ mine[1].kind = "Buffer" /\ mine[2].kind = "Texture"
            /\ issued[1].by = "this" /\ issued[2].by = "this") =>
            (mine[1].id = 1 /\ mine[2].id = 2)

\* create_buffer and create_texture have returned on a new manager, in a
\* process that had issued no handle, and the table holds both.
C26_Witness ==
    /\ Len(issued) = 2
    /\ IssuedTo("this") = issued
    /\ issued[1].kind = "Buffer" /\ issued[2].kind = "Texture"
    /\ in_flight["this"] = <<>>
    /\ DOMAIN resources = {issued[1].id, issued[2].id}

\* C27: no id is issued twice in the process, whichever manager and thread
\* asked for it; each table holds only ids issued to its own manager, so no
\* id is in both; and get_* with an id issued to the other manager returns
\* ResourceNotFound.
C27_IdsUniqueInProcess ==
    /\ \A i, j \in DOMAIN issued : i # j => issued[i].id # issued[j].id
    /\ \A t \in Threads :
           \A id \in DOMAIN resources_of(t) :
               \E i \in DOMAIN issued : issued[i].id = id /\ issued[i].by = t
    /\ DOMAIN resources \cap DOMAIN other_resources = {}
    /\ (rm_result.op = "get"
           /\ \E i \in DOMAIN issued :
                  issued[i].id = rm_result.id /\ issued[i].by = "other") =>
           rm_result.kind = "ResourceNotFound"

\* Both threads were inside create_texture at once, each with its id; both
\* have returned, and get_texture on the first manager, which holds a
\* texture of its own, has returned ResourceNotFound for the handle of the
\* other.
C27_Witness ==
    /\ RmReturned("get", "ResourceNotFound")
    /\ rm_result.type = "Texture"
    /\ rm_result.id \in DOMAIN other_resources
    /\ other_resources[rm_result.id].kind = "Texture"
    /\ \E id \in DOMAIN resources :
           /\ resources[id].kind = "Texture"
           /\ id > rm_result.id
    /\ \E i \in DOMAIN issued :
           /\ issued[i].by = "this"
           /\ i + 1 \in DOMAIN issued
           /\ issued[i + 1].by = "other"
           /\ issued[i + 1].id = rm_result.id

\* ------------------------------------------------------------ C28 to C30

\* Every resource that both p and q declare is declared Write, and not Read
\* or ReadWrite, by both.
WriteOnlyShared(p, q) ==
    \A r \in ResourceIds :
        (Declares(p, r, ResourceUsage) /\ Declares(q, r, ResourceUsage)) =>
            /\ Writes(p, r) /\ ~Reads(p, r)
            /\ Writes(q, r) /\ ~Reads(q, r)

\* C28: two passes that share resources only by both writing them, without
\* reading them, get no dependency edge between them from compile() (no
\* edge of `dependencies` joins two such passes); and
\* when that is so for every two passes, compile() returns Ok, its order
\* holds every pass, and it may place any two of them in either order.
C28_WriteWriteUnordered ==
    LET deps == dependencies(resource_declarations)
        keys == DOMAIN resource_declarations
    IN  /\ \A p \in keys : \A q \in deps[p] : ~WriteOnlyShared(p, q)
        /\ (\A p, q \in keys : p # q => WriteOnlyShared(p, q)) =>
               /\ (pc = "idle" /\ result.op = "compile") =>
                      /\ result.kind = "Ok"
                      /\ is_compiled
                      /\ { execution_order[i] : i \in DOMAIN execution_order } = keys
                      /\ Len(execution_order) = Cardinality(keys)
               /\ \A p, q \in keys :
                      p # q => \E order \in CompileOrders : Before(order, p, q)

\* compile() has returned Ok with B before A, both writing X and neither
\* reading it, and could have placed A before B.
C28_Witness ==
    /\ Returned("compile", "Ok")
    /\ DOMAIN resource_declarations = {"A", "B"}
    /\ Writes("A", "X") /\ ~Reads("A", "X")
    /\ Writes("B", "X") /\ ~Reads("B", "X")
    /\ Before(execution_order, "B", "A")
    /\ \E order \in CompileOrders : Before(order, "A", "B")

\* C29: a new manager has resource_count() = 0; clear() leaves
\* resource_count() = 0 and no issued id in the table; an issued id that is
\* not in the table is not in it after any later call either; and get_* on
\* an id that is not in the table returns ResourceNotFound.
C29_ClearEmptiesForGood ==
    /\ resource_count = 0
    /\ [][ /\ rm_result'.op = "clear" =>
                  /\ resource_count' = 0
                  /\ \A i \in DOMAIN issued : issued[i].id \notin DOMAIN resources'
           /\ \A i \in DOMAIN issued :
                  issued[i].id \notin DOMAIN resources =>
                      issued[i].id \notin DOMAIN resources'
           /\ (rm_result'.op = "get" /\ rm_result'.id \notin DOMAIN resources) =>
                  rm_result'.kind = "ResourceNotFound" ]_vars

\* get_* has returned ResourceNotFound for a handle of its kind that was
\* issued and never removed by remove_resource (so clear() took it out),
\* with a resource created since in the table.
C29_Witness ==
    /\ RmReturned("get", "ResourceNotFound")
    /\ IssuedAs(rm_result.id, rm_result.type)
    /\ rm_result.id \notin DOMAIN removed_at
    /\ resource_count = 1

\* C30: no step of execute() changes the passes, their declarations or the
\* cached order, so pass_count(), is_compiled() and execution_order() are
\* after the call what they were before it, whatever it returns; and an
\* execute() called after one that returned ExecutionFailed runs the passes
\* again from the first, without a compile() in between.
C30_ExecuteLeavesGraph ==
    [][ /\ (ExecuteCall \/ pc = "executing") =>
               /\ UNCHANGED <<passes, resource_declarations, compiled>>
               /\ pass_count' = pass_count
               /\ is_compiled' = is_compiled
               /\ is_compiled => execution_order' = execution_order
        /\ (ExecuteCall /\ Returned("execute", "ExecutionFailed")) =>
               /\ pc' = "executing"
               /\ cursor' = 1
               /\ invoked' = <<>> ]_vars

\* A second execute() is running, past its first pass, right after the one
\* before it returned ExecutionFailed.
C30_Witness ==
    /\ pc = "executing"
    /\ Len(execution_order) >= 2
    /\ result = Result("execute", "ExecutionFailed", execution_order[2])
    /\ cursor = 2
    /\ entry.compiled

\* ------------------------------------------------------------ C31 to C37

\* Two distinct passes of the table declare ReadWrite on one resource.
SharedReadWrite ==
    \E p, q \in DOMAIN resource_declarations :
        /\ p # q
        /\ \E r \in ResourceIds :
               Declares(p, r, {"ReadWrite"}) /\ Declares(q, r, {"ReadWrite"})

\* The step is a call of add_pass.
AddCall == pc = "idle" /\ result'.op = "add_pass"

\* The dependencies compile() would draw from the declarations the passes
\* of the table carry themselves.
PassDependencies ==
    dependencies([ p \in DOMAIN passes |-> passes[p].resources ])

\* C31: compile() on a graph in which two distinct passes both declare
\* ReadWrite on the same resource returns CyclicDependency.
C31_SharedReadWriteIsCycle ==
    (pc = "idle" /\ result.op = "compile" /\ SharedReadWrite) =>
        result.kind = "CyclicDependency"

\* compile() has returned on two passes that both declare ReadWrite on X.
C31_Witness ==
    /\ pc = "idle"
    /\ result.op = "compile"
    /\ pass_count = 2
    /\ SharedReadWrite

\* C32: remove_pass(id) returns true exactly when id was in the graph, taking
\* the pass and its declarations out; when it returns false the pass table,
\* the declarations and the cached order are what they were.
C32_RemoveReportsPresence ==
    [][ RemoveCall =>
          /\ \E id \in PassIds :
                 /\ result'.kind = (IF id \in DOMAIN passes THEN "true" ELSE "false")
                 /\ passes' = MapRemove(passes, id)
                 /\ resource_declarations' = MapRemove(resource_declarations, id)
          /\ result'.kind = "false" =>
                 /\ pass_count' = pass_count
                 /\ UNCHANGED <<passes, resource_declarations, compiled>> ]_vars

\* remove_pass has returned false on a compiled graph of one pass.
C32_Witness ==
    /\ Returned("remove_pass", "false")
    /\ entry.compiled
    /\ is_compiled
    /\ pass_count = 1

\* C33: compile() on a graph with no passes succeeds and leaves the graph
\* compiled with an empty execution order.
C33_EmptyGraphCompiles ==
    (pc = "idle" /\ result.op = "compile" /\ pass_count = 0) =>
        /\ result.kind = "Ok"
        /\ is_compiled
        /\ execution_order = <<>>

\* compile() has returned on a graph with no passes.
C33_Witness ==
    /\ pc = "idle"
    /\ result.op = "compile"
    /\ entry.count = 0
    /\ pass_count = 0

\* C34: add_pass with an id the graph holds replaces the pass and its
\* declarations and nothing else, the pass count staying what it was; and
\* every compile() works from the declarations of the passes now in the
\* table: the order it caches respects the dependencies drawn from them.
C34_AddReplaces ==
    [][ /\ (AddCall /\ DOMAIN passes' = DOMAIN passes) =>
               /\ pass_count' = pass_count
               /\ \E id \in DOMAIN passes :
                      /\ passes' = [passes EXCEPT ![id] = passes'[id]]
                      /\ resource_declarations' =
                             [resource_declarations EXCEPT ![id] = passes'[id].resources]
        /\ (CompileCall /\ result'.kind = "Ok") =>
               /\ DOMAIN PassDependencies = DOMAIN passes
               /\ \A p \in DOMAIN passes : \A q \in PassDependencies[p] :
                      Before(compiled'[1].passes, q, p) ]_vars

\* add_pass has returned on a graph of two passes that held its id already.
C34_Witness ==
    /\ Returned("add_pass", "Ok")
    /\ ~entry.compiled
    /\ entry.count = 2
    /\ pass_count = 2

\* C35: the pass table and the declaration table always have the same keys,
\* so that the lookups compile() unwraps all succeed: no compile() panics.
C35_TablesShareKeys ==
    /\ DOMAIN passes = DOMAIN resource_declarations
    /\ ~SortPanics(DOMAIN passes, dependencies(resource_declarations))
    /\ result.kind # "Panic"

\* compile() has succeeded on the one pass left by a remove_pass that
\* followed a failed compile().
C35_Witness ==
    /\ Returned("compile", "Ok")
    /\ retry = "recovered"
    /\ pass_count = 1

\* C36: execute() never returns PassNotFound: every id of the cached order
\* is a key of the pass table.
C36_NoPassNotFound ==
    /\ result.kind # "PassNotFound"
    /\ is_compiled =>
           \A i \in DOMAIN execution_order : execution_order[i] \in DOMAIN passes

\* execute() has returned Ok on the two passes recompiled after a
\* remove_pass.
C36_Witness ==
    /\ Returned("execute", "Ok")
    /\ retry = "recovered"
    /\ Len(invoked) = 2

\* C37: compile() on a compiled graph succeeds and leaves it compiled, with
\* an order over the same passes in which every writer still comes before
\* the passes that read what it writes.
C37_RecompileSucceeds ==
    [][ (CompileCall /\ is_compiled) =>
          /\ result'.kind = "Ok"
          /\ is_compiled'
          /\ UNCHANGED <<passes, resource_declarations>>
          /\ Len(compiled'[1].passes) = pass_count
          /\ { compiled'[1].passes[i] : i \in DOMAIN compiled'[1].passes }
                 = { compiled[1].passes[i] : i \in DOMAIN compiled[1].passes }
          /\ \A p, q \in DOMAIN passes :
                 DependsOn(p, q) => Before(compiled'[1].passes, q, p) ]_vars

\* compile() has returned Ok on a compiled graph of three passes.
C37_Witness ==
    /\ Returned("compile", "Ok")
    /\ entry.compiled
    /\ entry.count = 3
    /\ is_compiled

\* ------------------------------------------------------------ C38, C39

\* The step is a resize call (no other Renderer call returns "resize", and
\* no other step taken between two calls touches the renderer).
ResizeCall ==
    /\ rpc = "idle"
    /\ rpc' = "idle"
    /\ rd_result'.op = "resize"
    /\ UNCHANGED graph_vars

\* The step is a render call that returns Ok.
RenderReturnsOk ==
    rpc # "idle" /\ rpc' = "idle" /\ rd_result' = RdResult("render", "Ok")

\* The step is a render call that returns, whatever it returns.
RenderReturns ==
    \/ rpc \in {"build_frame", "execute", "executing", "present"} /\ rpc' = "idle"
    \/ rpc = "idle" /\ rd_result'.op = "render" /\ rd_result' # rd_result

\* The step is a reset_stats call.
ResetCall == rpc = "idle" /\ rd_result'.op = "reset_stats"

\* C38 as stated: frame_count is the number of render calls that have
\* returned Ok, that is, it starts at 0, goes up by one on every step on
\* which a render call returns Ok, and no other step changes it.
C38_FrameCountCountsOk ==
    /\ stats.frame_count = 0
    /\ [][ stats'.frame_count =
               IF RenderReturnsOk THEN stats.frame_count + 1 ELSE stats.frame_count ]_vars

\* C38, amended: frame_count is the number of render calls that have
\* returned Ok since the renderer was created or reset_stats was last
\* called.  A render call on a renderer that is not initialized returns an
\* error, and so does a render that leaves compile, execute or present with
\* an error, the count staying as it was; only present is followed by Ok.
C38_FrameCountSinceReset ==
    /\ stats.frame_count = 0
    /\ [][ /\ stats'.frame_count =
                  IF RenderReturnsOk THEN stats.frame_count + 1
                  ELSE IF ResetCall THEN 0
                  ELSE stats.frame_count
           /\ (rpc = "idle" /\ rd_result'.op = "render" /\ rd_result' # rd_result) =>
                  /\ ~renderer_initialized
                  /\ rd_result'.kind = "Other"
           /\ RenderReturns =>
                  /\ rd_result'.op = "render"
                  /\ rd_result'.kind = "Ok" <=> rpc = "present" /\ stats' # stats
                  /\ rd_result'.kind # "Ok" => stats' = stats
           /\ (rpc \in {"build_frame", "execute", "executing"}
                  /\ rpc' \notin {"idle", "present"}) =>
                  rd_result' = rd_result ]_vars

\* reset_stats has returned on a renderer that had counted two frames, the
\* last render having failed in present.
C38_Witness ==
    /\ rpc = "idle"
    /\ rd_result = RdResult("reset_stats", "Ok")
    /\ rd_entry.frame_count = 2
    /\ stats.frame_count = 0

\* C39: a resize call on an initialized renderer adds one texture to the
\* resource table and leaves every entry the table had, so resource_count()
\* is one higher after it; and no step of the renderer lowers
\* resource_count().
C39_ResizeAddsTexture ==
    [][ /\ (ResizeCall /\ renderer_initialized) =>
               /\ resource_count' = resource_count + 1
               /\ \A id \in DOMAIN resources :
                      id \in DOMAIN resources' /\ resources'[id] = resources[id]
               /\ \E id \in DOMAIN resources' \ DOMAIN resources :
                      resources'[id].kind = "Texture"
        /\ resource_count' >= resource_count ]_vars

\* Two resize calls have returned on an initialized renderer: the table
\* holds the texture of initialize and theirs.
C39_Witness ==
    /\ rpc = "idle"
    /\ rd_result = RdResult("resize", "Ok")
    /\ rd_entry.initialized
    /\ resource_count = 3

\* ------------------------------------------------------------------- C40

\* C40: every SceneNode constructed has a NodeId that no other node has,
\* on whichever threads the nodes were constructed.
C40_NodeIdsDistinct ==
    \A i, j \in DOMAIN nodes : i # j => nodes[i].id # nodes[j].id

====
